---- MODULE Spec2Model ----
(***************************************************************************)
(* Verification model of loose-it (PolymerLabs/loose-it).                  *)
(*                                                                         *)
(* Part 1: the binding parser, src/src/polymerjs/utils/binding-parser.js.  *)
(* parse(text, templateInfo) is a single for-loop over the characters of   *)
(* text, dispatching on a numeric state.  The model runs that loop one     *)
(* character per step: every STATE case of the switch is one action, and   *)
(* the code after the loop (trailing literal flush, return) is Finish.     *)
(*                                                                         *)
(* Representation.  A JavaScript string is a sequence of one-character     *)
(* strings.  A property that may be absent (undefined) is a sequence of    *)
(* length 0 (absent) or 1 (present); negate, customEvent and dynamicFn,    *)
(* which the code only ever sets to true, are booleans (FALSE = absent).   *)
(* A literal part is [literal |-> s]; a binding part is the bindingData    *)
(* record.                                                                 *)
(***************************************************************************)
EXTENDS Integers, Sequences, FiniteSets, TLC

\* ------------------------------------------------------------------------
\* Bounds of the input space
\* ------------------------------------------------------------------------
MaxChars == 4

MaxSegs == 3

MaxArgs == 2

\* ------------------------------------------------------------------------
\* JavaScript values and string primitives
\* ------------------------------------------------------------------------
Undefined == <<>>

Some(v) == <<v>>

\* `x || 0` for a numeric property that may be undefined
OrZero(o) == IF o = Undefined THEN 0 ELSE o[1]

Min(a, b) == IF a <= b THEN a ELSE b

Max(a, b) == IF a >= b THEN a ELSE b

Clamp(n, len) == Max(0, Min(n, len))

\* String.prototype.substring: both indices are clamped to [0, length] and
\* swapped when start > end.
substring(s, start, end) ==
    LET a == Clamp(start, Len(s))
        b == Clamp(end, Len(s))
    IN  SubSeq(s, Min(a, b) + 1, Max(a, b))

WhiteSpace == {" ", "\t", "\n"}

RECURSIVE trimStart(_)
trimStart(s) ==
    IF s # <<>> /\ Head(s) \in WhiteSpace THEN trimStart(Tail(s)) ELSE s

RECURSIVE trimEnd(_)
trimEnd(s) ==
    IF s # <<>> /\ s[Len(s)] \in WhiteSpace
    THEN trimEnd(SubSeq(s, 1, Len(s) - 1))
    ELSE s

\* String.prototype.trim
trim(s) == trimEnd(trimStart(s))

\* String.prototype.slice with a negative start / negative end
sliceLast(s, n) == SubSeq(s, Max(1, Len(s) - n + 1), Len(s))

sliceDropLast(s, n) == SubSeq(s, 1, Max(0, Len(s) - n))

DigitChars == <<"0", "1", "2", "3", "4", "5", "6", "7", "8", "9">>

isDigit(c) == \E d \in 1..10 : DigitChars[d] = c

DigitValue(c) == (CHOOSE d \in 1..10 : DigitChars[d] = c) - 1

RECURSIVE DecimalValue(_)
DecimalValue(s) ==
    IF s = <<>> THEN 0
    ELSE 10 * DecimalValue(SubSeq(s, 1, Len(s) - 1)) + DigitValue(s[Len(s)])

AllDigits(s) == \A k \in 1..Len(s) : isDigit(s[k])

\* Number(value) for the texts NUMBERARG can hand over: "" is 0, a digit
\* sequence is its value, '-' with digits is the negated value, anything
\* else (a lone '-') is NaN.
Number(s) ==
    IF AllDigits(s) THEN <<"number", DecimalValue(s)>>
    ELSE IF Head(s) = "-" /\ Len(s) > 1 /\ AllDigits(Tail(s))
         THEN <<"number", 0 - DecimalValue(Tail(s))>>
         ELSE <<"NaN">>

CommaEntity == <<"&", "c", "o", "m", "m", "a", ";">>

\* .replace(/&comma;/g, ',')
RECURSIVE replaceCommaEntity(_)
replaceCommaEntity(s) ==
    IF s = <<>> THEN <<>>
    ELSE IF Len(s) >= 7 /\ SubSeq(s, 1, 7) = CommaEntity
         THEN <<",">> \o replaceCommaEntity(SubSeq(s, 8, Len(s)))
         ELSE <<Head(s)>> \o replaceCommaEntity(Tail(s))

\* .replace(/\\(.)/g, '\$1'): the replacement text is "$1", so a backslash
\* followed by any character but a line break is replaced by that character.
RECURSIVE unescape(_)
unescape(s) ==
    IF s = <<>> THEN <<>>
    ELSE IF Head(s) = "\\" /\ Len(s) >= 2 /\ s[2] # "\n"
         THEN <<s[2]>> \o unescape(SubSeq(s, 3, Len(s)))
         ELSE <<Head(s)>> \o unescape(Tail(s))

\* isPath of ./path.js: the name contains a path separator
isPath(name) == \E k \in 1..Len(name) : name[k] = "."

\* ------------------------------------------------------------------------
\* Constants of the parser
\* ------------------------------------------------------------------------
BINDINGS == [c \in {"{", "["} |-> IF c = "{" THEN "}" ELSE "]"]

ParserState == {"INITIAL", "FIRSTOPENINGBINDING", "FIRSTCHARACTERBINDING",
          "BINDING", "FIRSTCOLON", "COLONNOTIFYEVENT",
          "COLONNOTIFYEVENTFIRSTCLOSINGBINDING", "FIRSTCLOSINGBINDING",
          "STRING", "METHOD", "STRINGARG", "NUMBERARG", "VARIABLEARG",
          "METHODCLOSED", "METHODCLOSEDBINDING"}

\* `{}`: the binding record before any opener was seen.  mode "" and an
\* empty dependency list stand for the absent properties; neither is read
\* before INITIAL replaces the record.
EmptyObject ==
    [mode |-> "", dependencies |-> <<>>, startChar |-> Undefined,
     negate |-> FALSE, source |-> Undefined, signature |-> Undefined,
     customEvent |-> FALSE, startCharAfterColon |-> Undefined,
     event |-> Undefined]

isLiteralPart(part) == "literal" \in DOMAIN part

\* parts[parts.length - 1].startChar: undefined on a literal part
partStartChar(part) ==
    IF isLiteralPart(part) THEN Undefined ELSE part.startChar

\* ------------------------------------------------------------------------
\* Helper functions of the parser
\* ------------------------------------------------------------------------
\* mutant: the emptiness test of line 37 is missing
pushLiteral_NoEmptyTest(t, end, ps, startChar) ==
    Append(ps, [literal |-> substring(t, OrZero(startChar), end)])

pushLiteral(t, end, ps, startChar) ==
    LET literal == substring(t, OrZero(startChar), end)
    IN  IF literal # <<>> THEN Append(ps, [literal |-> literal]) ELSE ps

\* storeMethod reads templateInfo.dynamicFns: a TypeError when parse was
\* called without its second argument.
storeMethodThrows(bd, ti) == ti = Undefined

\* mutant: the dynamicFns lookup is ignored, only static calls are flagged
storeMethod_StaticOnly(bd, ti) ==
    LET sig == bd.signature[1]
        methodName == sig.methodName
    IN  IF sig.static
        THEN [bd EXCEPT !.dependencies = Append(@, methodName),
                        !.signature = Some([sig EXCEPT !.dynamicFn = TRUE])]
        ELSE bd

storeMethod(bd, ti) ==
    LET sig == bd.signature[1]
        methodName == sig.methodName
        dynamicFns == ti[1].dynamicFns
    IN  IF (dynamicFns # Undefined /\ methodName \in dynamicFns[1]) \/ sig.static
        THEN [bd EXCEPT !.dependencies = Append(@, methodName),
                        !.signature = Some([sig EXCEPT !.dynamicFn = TRUE])]
        ELSE bd

\* mutant: startChar is left on the second closing character (i, not i + 1)
storeVariableBinding_StartAtCloser(ps, bd, prop, idx) ==
    LET stored == [bd EXCEPT !.source = Some(prop),
                             !.dependencies = Append(@, prop),
                             !.startChar = Some(idx)]
    IN  [bindingData |-> stored, parts |-> Append(ps, stored)]

\* storeVariableBinding mutates bindingData and pushes that same object:
\* the result is the mutated record and the extended parts.
storeVariableBinding(ps, bd, prop, idx) ==
    LET stored == [bd EXCEPT !.source = Some(prop),
                             !.dependencies = Append(@, prop),
                             !.startChar = Some(idx + 1)]
    IN  [bindingData |-> stored, parts |-> Append(ps, stored)]

\* mutant: a property argument does not clear signature.static (line 82)
storeMethodVariable_KeepStatic(bd, t, idx) ==
    LET name == trim(substring(t, OrZero(bd.startChar), idx))
        sig == bd.signature[1]
    IN  IF name = <<>> THEN bd
        ELSE IF name = <<"t", "r", "u", "e">> \/ name = <<"f", "a", "l", "s", "e">>
        THEN [bd EXCEPT !.signature = Some([sig EXCEPT !.args =
                 Append(@, [name |-> name,
                            value |-> <<"boolean", name = <<"t", "r", "u", "e">> >>,
                            literal |-> TRUE])])]
        ELSE LET structured == isPath(name)
                 wildcard == IF structured
                             THEN Some(sliceLast(name, 2) = <<".", "*">>)
                             ELSE Undefined
                 argName == IF wildcard = Some(TRUE)
                            THEN sliceDropLast(name, 2) ELSE name
                 arg == [name |-> argName, structured |-> structured,
                         wildcard |-> wildcard]
             IN  [bd EXCEPT !.signature = Some([sig EXCEPT
                                 !.args = Append(@, arg)]),
                            !.dependencies = Append(@, name)]

\* mutant: the wildcard suffix is not removed from the name (lines 76-78)
storeMethodVariable_KeepSuffix(bd, t, idx) ==
    LET name == trim(substring(t, OrZero(bd.startChar), idx))
        sig == bd.signature[1]
    IN  IF name = <<>> THEN bd
        ELSE IF name = <<"t", "r", "u", "e">> \/ name = <<"f", "a", "l", "s", "e">>
        THEN [bd EXCEPT !.signature = Some([sig EXCEPT !.args =
                 Append(@, [name |-> name,
                            value |-> <<"boolean", name = <<"t", "r", "u", "e">> >>,
                            literal |-> TRUE])])]
        ELSE LET structured == isPath(name)
                 wildcard == IF structured
                             THEN Some(sliceLast(name, 2) = <<".", "*">>)
                             ELSE Undefined
                 argName == name
                 arg == [name |-> argName, structured |-> structured,
                         wildcard |-> wildcard]
             IN  [bd EXCEPT !.signature = Some([sig EXCEPT
                                 !.args = Append(@, arg), !.static = FALSE]),
                            !.dependencies = Append(@, name)]

storeMethodVariable(bd, t, idx) ==
    LET name == trim(substring(t, OrZero(bd.startChar), idx))
        sig == bd.signature[1]
    IN  IF name = <<>> THEN bd
        ELSE IF name = <<"t", "r", "u", "e">> \/ name = <<"f", "a", "l", "s", "e">>
        THEN [bd EXCEPT !.signature = Some([sig EXCEPT !.args =
                 Append(@, [name |-> name,
                            value |-> <<"boolean", name = <<"t", "r", "u", "e">> >>,
                            literal |-> TRUE])])]
        ELSE LET structured == isPath(name)
                 wildcard == IF structured
                             THEN Some(sliceLast(name, 2) = <<".", "*">>)
                             ELSE Undefined
                 argName == IF wildcard = Some(TRUE)
                            THEN sliceDropLast(name, 2) ELSE name
                 arg == [name |-> argName, structured |-> structured,
                         wildcard |-> wildcard]
             IN  [bd EXCEPT !.signature = Some([sig EXCEPT
                                 !.args = Append(@, arg), !.static = FALSE]),
                            !.dependencies = Append(@, name)]

storeMethodNumber(bd, t, idx) ==
    LET value == trim(substring(t, OrZero(bd.startChar), idx))
        sig == bd.signature[1]
    IN  [bd EXCEPT !.signature = Some([sig EXCEPT !.args =
             Append(@, [name |-> value, value |-> Number(value),
                        literal |-> TRUE])])]

\* ------------------------------------------------------------------------
\* State of one call of parse
\* ------------------------------------------------------------------------
VARIABLES text, templateInfo, parts, bindingData, escaped, quote, state, i,
          warnings, pc

\* The prototypes under effect compaction (part 2 of the model): a sequence
\* of prototype records, empty while the parser is checked.
VARIABLE protos

\* The run of PreBuildBindings._transformIter over a file stream (part 4 of
\* the model); idle while the parser or a compaction runs.
VARIABLE transform

\* no stream is transformed
NoTransform == [pc |-> "idle"]

\* A FlattenedNodesObserver with its target, the microtasks it has queued
\* and the mutation records of its children observer (part 5 of the model);
\* absent while another part runs.
VARIABLE observer

\* no observer was constructed
NoObserver == [pc |-> "idle"]

parserVars == <<text, templateInfo, parts, bindingData, escaped, quote, state,
                i, warnings, pc>>

vars == <<parserVars, protos, transform, observer>>

\* ------------------------------------------------------------------------
\* Inputs
\* ------------------------------------------------------------------------
RECURSIVE Concat(_)
Concat(ss) == IF ss = <<>> THEN <<>> ELSE Head(ss) \o Concat(Tail(ss))

SeqsUpTo(S, n) == UNION {[1..k -> S] : k \in 0..n}

\* second argument of parse: omitted, without dynamicFns, with dynamicFns
DynName == <<"d">>

TemplateInfos ==
    {Undefined,
     Some([dynamicFns |-> Undefined]),
     Some([dynamicFns |-> Some({DynName})])}

\* (G) every text of at most MaxChars characters over GenChars
GenChars == {"{", "}", "[", "]", "a", ":", "(", ")", "!"}

GenericTexts == SeqsUpTo(GenChars, MaxChars)

\* (S) every concatenation of at most MaxSegs segments: literal runs,
\* well-formed bindings, an unclosed opener pair and an aborted opener
Segments ==
    {<<"x">>,
     <<"b", "{", "c">>,
     <<"{", "{", "p", "}", "}">>,
     <<"[", "[", "!", "q", "]", "]">>,
     <<"{", "{", "v", ":", ":", "e", "}", "}">>,
     <<"{", "{", "c">>,
     <<"[", "[", "m", "(", "a", ")", "]", "]">>,
     <<"[", "[", "m", "(", ")", "x", "]", "]">>,
     <<"{", "{", "a", "'", "}", "}", "'", "}", "}">>}

SegmentTexts == {Concat(ss) : ss \in SeqsUpTo(Segments, MaxSegs)}

\* (B) one simple binding between two literal runs:
\* pre + open pair + whitespace + body + close pair + post
Lits == {<<"x">>, <<"H", "i", " ">>, <<"!">>}

Openers == {"{", "["}

Pair(c) == <<c, c>>

LeadingWs == {<<>>, <<" ">>, <<"\t", "\n">>}

Names == {<<"p">>, <<"n", "a", "m", "e">>, <<"a", ".", "b">>}

\* the text between the delimiters and the path it denotes
PropForms ==
    {[txt |-> n, name |-> n] : n \in Names}
        \cup {[txt |-> <<"p", " ">>, name |-> <<"p">>],
              [txt |-> <<"p", "!">>, name |-> <<"p", "!">>]}

EventForms ==
    {[txt |-> <<>>, name |-> <<>>],
     [txt |-> <<"e">>, name |-> <<"e">>],
     [txt |-> <<"i", "n", "-", "c">>, name |-> <<"i", "n", "-", "c">>],
     [txt |-> <<" ", "e", " ">>, name |-> <<"e">>]}

EventBody(p, e) == p \o <<":", ":">> \o e

SimpleBodies ==
    {f.txt : f \in PropForms}
        \cup {<<"!">> \o f.txt : f \in PropForms}
        \cup {EventBody(f.txt, e.txt) : f \in PropForms, e \in EventForms}

BindingText(pre, o, ws, body, post) ==
    pre \o Pair(o) \o ws \o body \o Pair(BINDINGS[o]) \o post

BindingTexts ==
    {BindingText(pre, o, ws, body, post) :
        pre \in Lits \cup {<<>>}, o \in Openers, ws \in LeadingWs,
        body \in SimpleBodies, post \in Lits \cup {<<>>}}

\* (M) one method call with at most MaxArgs arguments.  An argument form
\* carries its source text and what it denotes.
NameArgs ==
    {[form |-> "name", txt |-> <<"a">>, name |-> <<"a">>],
     [form |-> "name", txt |-> <<"a", ".", "b">>, name |-> <<"a", ".", "b">>],
     [form |-> "name", txt |-> <<"b", ".", "*">>, name |-> <<"b">>]}

StringArgs ==
    {[form |-> "string", txt |-> <<"'", "x", "'">>, str |-> <<"x">>],
     [form |-> "string", txt |-> <<"\"", "y", ",", "z", "\"">>,
      str |-> <<"y", ",", "z">>]}

NumberArgs ==
    {[form |-> "number", txt |-> <<"3">>, num |-> 3],
     [form |-> "number", txt |-> <<"1", "2">>, num |-> 12]}

BooleanArgs ==
    {[form |-> "boolean", txt |-> <<"t", "r", "u", "e">>, bool |-> TRUE]}

ArgForms == NameArgs \cup StringArgs \cup NumberArgs \cup BooleanArgs

Separators == {<<",">>, <<",", " ">>}

MethodNames == {<<"m">>, DynName}

RECURSIVE JoinArgs(_, _)
JoinArgs(as, sep) ==
    IF as = <<>> THEN <<>>
    ELSE IF Len(as) = 1 THEN as[1].txt
    ELSE as[1].txt \o sep \o JoinArgs(Tail(as), sep)

MethodText(o, m, as, sep) ==
    Pair(o) \o m \o <<"(">> \o JoinArgs(as, sep) \o <<")">> \o Pair(BINDINGS[o])

MethodTexts ==
    {MethodText(o, m, as, sep) :
        o \in Openers, m \in MethodNames,
        as \in SeqsUpTo(ArgForms, MaxArgs), sep \in Separators}

\* (X) an opener pair whose body is followed by the closing pair of the
\* other kind, then by nothing, by more text or by its own closing pair
OtherOpener(o) == IF o = "{" THEN "[" ELSE "{"

CrossedTexts ==
    UNION {{Pair(o) \o body \o Pair(BINDINGS[OtherOpener(o)]) \o post :
               body \in {<<"p">>, <<"m", "(", "a", ")">>,
                          <<"v", ":", ":", "e">>},
               post \in {<<>>, <<"x">>, Pair(BINDINGS[o])}} :
           o \in Openers}

\* (N) a call whose first argument is a number, with or without blanks
\* around it, alone or followed by a second argument
NumberForms ==
    {[txt |-> <<"3">>, num |-> 3],
     [txt |-> <<"-", "3">>, num |-> 0 - 3],
     [txt |-> <<"1", "2">>, num |-> 12]}

NumberText(o, pre, f, post, rest) ==
    Pair(o) \o <<"m", "(">> \o pre \o f.txt \o post \o rest \o <<")">>
        \o Pair(BINDINGS[o])

NumberTexts ==
    {NumberText(o, pre, f, post, rest) :
        o \in Openers, pre \in {<<>>, <<" ">>}, f \in NumberForms,
        post \in {<<>>, <<" ">>}, rest \in {<<>>, <<",", "a">>, <<",", "4">>}}

Inputs ==
    GenericTexts \cup SegmentTexts \cup BindingTexts \cup MethodTexts
        \cup CrossedTexts \cup NumberTexts

\* ------------------------------------------------------------------------
\* parse: initial state (lines 97-104) and the loop
\* ------------------------------------------------------------------------
Init ==
    /\ text \in Inputs
    /\ templateInfo \in TemplateInfos
    /\ parts = <<>>
    /\ bindingData = EmptyObject
    /\ escaped = FALSE
    /\ quote = Undefined
    /\ state = "INITIAL"
    /\ i = 0
    /\ warnings = <<>>
    /\ pc = "loop"
    /\ protos = <<>>
    /\ transform = NoTransform
    /\ observer = NoObserver

\* the loop is about to read text.charAt(i) in state st
At(st) == pc = "loop" /\ i < Len(text) /\ state = st

char == text[i + 1]

\* mutant: a closing character of either kind closes the binding
closing_EitherKind ==
    IF char \in {"}", "]"} THEN char ELSE BINDINGS[bindingData.mode]

closing == BINDINGS[bindingData.mode]

isBlank(c) == c = " " \/ c = "\t" \/ c = "\n"

\* mutant: the start of the path is not advanced past the '!'
negateBinding_KeepStart(bd, idx) == [bd EXCEPT !.negate = TRUE]

\* lines 134-135
negateBinding(bd, idx) ==
    [bd EXCEPT !.negate = TRUE, !.startChar = Some(idx + 1)]

\* line 187
customEventName(t, bd, idx) ==
    trim(substring(t, OrZero(bd.startCharAfterColon), idx - 1))

\* mutant: the path runs up to the event name, '::' included
customEventProp_KeepColons(t, bd) ==
    trim(substring(t, OrZero(bd.startChar), OrZero(bd.startCharAfterColon)))

\* line 188
customEventProp(t, bd) ==
    trim(substring(t, OrZero(bd.startChar), OrZero(bd.startCharAfterColon) - 2))

INITIAL ==
    /\ At("INITIAL")
    /\ IF char = "{" \/ char = "["
       THEN /\ bindingData' = [EmptyObject EXCEPT
                                  !.mode = char,
                                  !.startChar = bindingData.startChar]
            /\ state' = "FIRSTOPENINGBINDING"
       ELSE UNCHANGED <<bindingData, state>>
    /\ i' = i + 1
    /\ UNCHANGED <<protos, transform, observer, text, templateInfo, parts, escaped, quote, warnings, pc>>

FIRSTOPENINGBINDING ==
    /\ At("FIRSTOPENINGBINDING")
    /\ IF char = bindingData.mode
       THEN /\ parts' = pushLiteral(text, i - 1, parts, bindingData.startChar)
            /\ bindingData' = [bindingData EXCEPT !.startChar = Some(i + 1)]
            /\ state' = "FIRSTCHARACTERBINDING"
       ELSE /\ bindingData' = EmptyObject
            /\ state' = "INITIAL"
            /\ UNCHANGED parts
    /\ i' = i + 1
    /\ UNCHANGED <<protos, transform, observer, text, templateInfo, escaped, quote, warnings, pc>>

FIRSTCHARACTERBINDING ==
    /\ At("FIRSTCHARACTERBINDING")
    /\ IF ~isBlank(char)
       THEN /\ bindingData' = IF char = "!"
                               THEN negateBinding(bindingData, i)
                               ELSE bindingData
            /\ state' = "BINDING"
       ELSE UNCHANGED <<bindingData, state>>
    /\ i' = i + 1
    /\ UNCHANGED <<protos, transform, observer, text, templateInfo, parts, escaped, quote, warnings, pc>>

BINDING ==
    /\ At("BINDING")
    /\ IF char = closing
       THEN /\ state' = "FIRSTCLOSINGBINDING"
            /\ UNCHANGED <<bindingData, quote>>
       ELSE IF char = "'" \/ char = "\""
       THEN /\ quote' = Some(char)
            /\ state' = "STRING"
            /\ UNCHANGED bindingData
       ELSE IF char = "("
       THEN /\ bindingData' = [bindingData EXCEPT
                  !.signature = Some(
                      [methodName |-> trim(substring(text, OrZero(bindingData.startChar), i)),
                       args |-> <<>>, static |-> TRUE, dynamicFn |-> FALSE]),
                  !.startChar = Some(i + 1)]
            /\ state' = "METHOD"
            /\ UNCHANGED quote
       ELSE IF char = ":"
       THEN /\ state' = "FIRSTCOLON"
            /\ UNCHANGED <<bindingData, quote>>
       ELSE UNCHANGED <<bindingData, quote, state>>
    /\ i' = i + 1
    /\ UNCHANGED <<protos, transform, observer, text, templateInfo, parts, escaped, warnings, pc>>

FIRSTCOLON ==
    /\ At("FIRSTCOLON")
    /\ IF char = ":"
       THEN /\ bindingData' = [bindingData EXCEPT
                                  !.customEvent = TRUE,
                                  !.startCharAfterColon = Some(i + 1)]
            /\ state' = "COLONNOTIFYEVENT"
       ELSE /\ state' = "BINDING"
            /\ UNCHANGED bindingData
    /\ i' = i + 1
    /\ UNCHANGED <<protos, transform, observer, text, templateInfo, parts, escaped, quote, warnings, pc>>

COLONNOTIFYEVENT ==
    /\ At("COLONNOTIFYEVENT")
    /\ state' = IF char = closing
                THEN "COLONNOTIFYEVENTFIRSTCLOSINGBINDING"
                ELSE state
    /\ i' = i + 1
    /\ UNCHANGED <<protos, transform, observer, text, templateInfo, parts, bindingData, escaped, quote,
                   warnings, pc>>

COLONNOTIFYEVENTFIRSTCLOSINGBINDING ==
    /\ At("COLONNOTIFYEVENTFIRSTCLOSINGBINDING")
    /\ IF char = closing
       THEN LET withEvent == [bindingData EXCEPT !.event =
                                 Some(customEventName(text, bindingData, i))]
                prop == customEventProp(text, bindingData)
                stored == storeVariableBinding(parts, withEvent, prop, i)
            IN  /\ parts' = stored.parts
                /\ bindingData' = stored.bindingData
                /\ state' = "INITIAL"
       ELSE /\ state' = "BINDING"
            /\ UNCHANGED <<parts, bindingData>>
    /\ i' = i + 1
    /\ UNCHANGED <<protos, transform, observer, text, templateInfo, escaped, quote, warnings, pc>>

FIRSTCLOSINGBINDING ==
    /\ At("FIRSTCLOSINGBINDING")
    /\ IF char = closing
       THEN LET prop == trim(substring(text, OrZero(bindingData.startChar), i - 1))
                stored == storeVariableBinding(parts, bindingData, prop, i)
            IN  /\ parts' = stored.parts
                /\ bindingData' = stored.bindingData
                /\ state' = "INITIAL"
       ELSE /\ state' = "BINDING"
            /\ UNCHANGED <<parts, bindingData>>
    /\ i' = i + 1
    /\ UNCHANGED <<protos, transform, observer, text, templateInfo, escaped, quote, warnings, pc>>

\* case STATE.STRING (STRING is a TLA+ keyword)
STRINGSTATE ==
    /\ At("STRING")
    /\ IF char = "\\"
       THEN /\ escaped' = TRUE
            /\ UNCHANGED state
       ELSE IF Some(char) = quote /\ ~escaped
       THEN /\ state' = "BINDING"
            /\ UNCHANGED escaped
       ELSE /\ escaped' = FALSE
            /\ UNCHANGED state
    /\ i' = i + 1
    /\ UNCHANGED <<protos, transform, observer, text, templateInfo, parts, bindingData, quote, warnings, pc>>

\* value of a closed string argument (lines 251-259)
stringArgValue(t, startChar, idx) ==
    unescape(replaceCommaEntity(
        substring(trimStart(substring(t, OrZero(startChar), idx)), 1,
                  Len(t))))

\* case ')' of METHOD, NUMBERARG and VARIABLEARG: the argument has been
\* stored in bd; storeMethod runs `calls` times (twice in METHOD, with the
\* startChar update between the two calls) and the state becomes
\* METHODCLOSED.  A throwing storeMethod ends parse with the exception.
closeMethod(bd, calls, newStartChar) ==
    IF storeMethodThrows(bd, templateInfo)
    THEN /\ pc' = "threw"
         /\ UNCHANGED <<bindingData, state>>
    ELSE /\ bindingData' =
               IF calls = 2
               THEN storeMethod([storeMethod(bd, templateInfo)
                                    EXCEPT !.startChar = newStartChar],
                                templateInfo)
               ELSE storeMethod(bd, templateInfo)
         /\ state' = "METHODCLOSED"
         /\ UNCHANGED pc

METHOD ==
    /\ At("METHOD")
    /\ IF char = ")"
       THEN /\ closeMethod(storeMethodVariable(bindingData, text, i), 2,
                           Some(i + 1))
            /\ UNCHANGED quote
       ELSE IF char = ","
       THEN /\ bindingData' = [storeMethodVariable(bindingData, text, i)
                                  EXCEPT !.startChar = Some(i + 1)]
            /\ UNCHANGED <<state, quote, pc>>
       ELSE IF char = "'" \/ char = "\""
       THEN /\ quote' = Some(char)
            /\ state' = "STRINGARG"
            /\ UNCHANGED <<bindingData, pc>>
       ELSE /\ state' = IF isDigit(char) \/ char = "-" THEN "NUMBERARG"
                        ELSE IF char # " " /\ char # "\n" THEN "VARIABLEARG"
                        ELSE state
            /\ UNCHANGED <<bindingData, quote, pc>>
    /\ i' = IF pc' = "threw" THEN i ELSE i + 1
    /\ UNCHANGED <<protos, transform, observer, text, templateInfo, parts, escaped, warnings>>

STRINGARG ==
    /\ At("STRINGARG")
    /\ IF char = "\\"
       THEN /\ escaped' = TRUE
            /\ UNCHANGED <<bindingData, state>>
       ELSE IF Some(char) = quote /\ ~escaped
       THEN LET value == stringArgValue(text, bindingData.startChar, i)
                sig == bindingData.signature[1]
            IN  /\ bindingData' = [bindingData EXCEPT
                       !.signature = Some([sig EXCEPT !.args =
                           Append(@, [value |-> <<"string", value>>,
                                      name |-> value, literal |-> TRUE])]),
                       !.startChar = Some(i + 1)]
                /\ state' = "METHOD"
                /\ UNCHANGED escaped
       ELSE /\ escaped' = FALSE
            /\ UNCHANGED <<bindingData, state>>
    /\ i' = i + 1
    /\ UNCHANGED <<protos, transform, observer, text, templateInfo, parts, quote, warnings, pc>>

NUMBERARG ==
    /\ At("NUMBERARG")
    /\ IF char = ","
       THEN /\ bindingData' = [storeMethodNumber(bindingData, text, i)
                                  EXCEPT !.startChar = Some(i + 1)]
            /\ state' = "METHOD"
            /\ UNCHANGED pc
       ELSE IF char = ")"
       THEN closeMethod(storeMethodNumber(bindingData, text, i), 1, Undefined)
       ELSE /\ state' = IF ~isDigit(char) THEN "VARIABLEARG" ELSE state
            /\ UNCHANGED <<bindingData, pc>>
    /\ i' = IF pc' = "threw" THEN i ELSE i + 1
    /\ UNCHANGED <<protos, transform, observer, text, templateInfo, parts, escaped, quote, warnings>>

VARIABLEARG ==
    /\ At("VARIABLEARG")
    /\ IF char = ","
       THEN /\ bindingData' = [storeMethodVariable(bindingData, text, i)
                                  EXCEPT !.startChar = Some(i + 1)]
            /\ state' = "METHOD"
            /\ UNCHANGED pc
       ELSE IF char = ")"
       THEN closeMethod(storeMethodVariable(bindingData, text, i), 1, Undefined)
       ELSE UNCHANGED <<bindingData, state, pc>>
    /\ i' = IF pc' = "threw" THEN i ELSE i + 1
    /\ UNCHANGED <<protos, transform, observer, text, templateInfo, parts, escaped, quote, warnings>>

\* mutant: a character other than the closer sends the scanner back to
\* BINDING, as FIRSTCLOSINGBINDING does
METHODCLOSED_BackToBinding ==
    /\ At("METHODCLOSED")
    /\ IF char = closing
       THEN /\ state' = "METHODCLOSEDBINDING"
            /\ UNCHANGED warnings
       ELSE /\ warnings' = IF ~isBlank(char)
                           THEN Append(warnings, "Expected two closing")
                           ELSE warnings
            /\ state' = IF ~isBlank(char) THEN "BINDING" ELSE state
    /\ i' = i + 1
    /\ UNCHANGED <<protos, transform, observer, text, templateInfo, parts, bindingData, escaped, quote, pc>>

METHODCLOSED ==
    /\ At("METHODCLOSED")
    /\ IF char = closing
       THEN /\ state' = "METHODCLOSEDBINDING"
            /\ UNCHANGED warnings
       ELSE /\ warnings' = IF ~isBlank(char)
                           THEN Append(warnings, "Expected two closing")
                           ELSE warnings
            /\ UNCHANGED state
    /\ i' = i + 1
    /\ UNCHANGED <<protos, transform, observer, text, templateInfo, parts, bindingData, escaped, quote, pc>>

METHODCLOSEDBINDING ==
    /\ At("METHODCLOSEDBINDING")
    /\ IF char = closing
       THEN LET stored == [bindingData EXCEPT !.startChar = Some(i + 1)]
            IN  /\ bindingData' = stored
                /\ parts' = Append(parts, stored)
                /\ state' = "INITIAL"
                /\ UNCHANGED warnings
       ELSE /\ warnings' = IF ~isBlank(char)
                           THEN Append(warnings, "Expected one closing")
                           ELSE warnings
            /\ UNCHANGED <<parts, bindingData, state>>
    /\ i' = i + 1
    /\ UNCHANGED <<protos, transform, observer, text, templateInfo, escaped, quote, pc>>

\* loop exit: trailing literal flush and return (lines 332-336)
Finish ==
    /\ pc = "loop"
    /\ i = Len(text)
    /\ parts' = IF Len(parts) > 0
                THEN pushLiteral(text, i, parts,
                                 partStartChar(parts[Len(parts)]))
                ELSE parts
    /\ pc' = "done"
    /\ UNCHANGED <<protos, transform, observer, text, templateInfo, bindingData, escaped, quote, state, i,
                   warnings>>

Next ==
    \/ INITIAL
    \/ FIRSTOPENINGBINDING
    \/ FIRSTCHARACTERBINDING
    \/ BINDING
    \/ FIRSTCOLON
    \/ COLONNOTIFYEVENT
    \/ COLONNOTIFYEVENTFIRSTCLOSINGBINDING
    \/ FIRSTCLOSINGBINDING
    \/ STRINGSTATE
    \/ METHOD
    \/ STRINGARG
    \/ NUMBERARG
    \/ VARIABLEARG
    \/ METHODCLOSED
    \/ METHODCLOSEDBINDING
    \/ Finish

Spec == Init /\ [][Next]_vars

\* ------------------------------------------------------------------------
\* Properties of parse
\* ------------------------------------------------------------------------
returned == pc = "done"

Delimiters == {"{", "}", "[", "]"}

NoDelimiters(s) == \A k \in 1..Len(s) : s[k] \notin Delimiters

isBinding(k) == k \in 1..Len(parts) /\ ~isLiteralPart(parts[k])

RECURSIVE isInfix(_, _)
isInfix(n, s) ==
    \/ (Len(n) <= Len(s) /\ SubSeq(s, 1, Len(n)) = n)
    \/ (s # <<>> /\ isInfix(n, Tail(s)))

\* C1: for every non-empty input without delimiter characters, parse
\* returns exactly one part, a literal whose text is the whole input.
C1_DelimiterFreeTextIsOneLiteral ==
    (returned /\ text # <<>> /\ NoDelimiters(text))
        => parts = <<[literal |-> text]>>

\* C2: parse never raises an exception, whatever the text and whether or
\* not the dynamic-function lookup was passed.
C2_ParseNeverThrows == pc # "threw"

UnclosedBodies == {<<"a">>, <<"a", "a">>, <<"c">>}

\* C3: for an opening pair that is never closed, parse returns, has
\* emitted a warning, and the result has a literal part that contains the
\* unmatched text.
C3_UnclosedOpenerWarnsAndFallsBack ==
    \A o \in Openers, n \in UnclosedBodies :
        (pc # "loop" /\ text = Pair(o) \o n)
            => /\ returned
               /\ warnings # <<>>
               /\ \E k \in 1..Len(parts) :
                     isLiteralPart(parts[k]) /\ isInfix(n, parts[k].literal)

\* C4: L1 + "{{" + p + "}}" + L2, with p a property name and L1, L2
\* non-empty delimiter-free texts, gives exactly literal L1, a two-way
\* binding of p with dependencies [p], literal L2.
C4_LiteralBindingLiteral ==
    returned =>
        \A L1 \in Lits, L2 \in Lits, p \in Names :
            text = BindingText(L1, "{", <<>>, p, L2)
                => /\ Len(parts) = 3
                   /\ parts[1] = [literal |-> L1]
                   /\ isBinding(2)
                   /\ parts[2].mode = "{"
                   /\ parts[2].source = Some(p)
                   /\ parts[2].dependencies = <<p>>
                   /\ parts[2].signature = Undefined
                   /\ parts[3] = [literal |-> L2]

C4_Witness ==
    /\ returned
    /\ text = BindingText(<<"H", "i", " ">>, "{", <<>>,
                          <<"n", "a", "m", "e">>, <<"!">>)
    /\ Len(parts) = 3

\* the argument forms of C5: a bare name, a quoted text, a digit sequence
C5ArgForms ==
    {f \in NameArgs : f.txt = f.name} \cup StringArgs \cup NumberArgs

argMatches(arg, f) ==
    IF f.form = "name"
    THEN "literal" \notin DOMAIN arg /\ arg.name = f.name
    ELSE /\ "literal" \in DOMAIN arg
         /\ arg.literal
         /\ arg.value = IF f.form = "string" THEN <<"string", f.str>>
                                            ELSE <<"number", f.num>>

\* C5: "[[m(a1, ..., an)]]" gives one one-way binding whose signature has
\* method name m and the arguments in source order, a bare name as a
\* property reference, a quoted text as a string literal without its
\* quotes, a digit sequence as a numeric literal with its value; the
\* signature is non-static when an argument is a property reference.
C5_MethodCallArguments ==
    pc # "loop" =>
        \A m \in MethodNames, sep \in Separators,
           as \in SeqsUpTo(C5ArgForms, MaxArgs) :
            (as # <<>> /\ text = MethodText("[", m, as, sep))
                => /\ returned
                   /\ Len(parts) = 1
                   /\ isBinding(1)
                   /\ parts[1].mode = "["
                   /\ parts[1].signature # Undefined
                   /\ LET sig == parts[1].signature[1]
                      IN  /\ sig.methodName = m
                          /\ Len(sig.args) = Len(as)
                          /\ \A k \in 1..Len(as) : argMatches(sig.args[k], as[k])
                          /\ (\E k \in 1..Len(as) : as[k].form = "name")
                                => ~sig.static

\* C6: "{{p::e}}" gives one two-way binding marked customEvent whose
\* source is p trimmed (without '::') and whose event is e trimmed.
C6_CustomEventBinding ==
    returned =>
        \A f \in PropForms, e \in EventForms :
            text = BindingText(<<>>, "{", <<>>, EventBody(f.txt, e.txt), <<>>)
                => /\ Len(parts) = 1
                   /\ isBinding(1)
                   /\ parts[1].mode = "{"
                   /\ parts[1].customEvent
                   /\ parts[1].source = Some(f.name)
                   /\ parts[1].event = Some(e.name)

C6_Witness ==
    /\ returned
    /\ text = BindingText(<<>>, "{", <<>>,
                          EventBody(<<"p", " ">>, <<" ", "e", " ">>), <<>>)
    /\ Len(parts) = 1
    /\ parts[1].customEvent

\* C7: a binding whose first non-whitespace character is '!' has negate
\* set and a source without that '!'; a binding whose first
\* non-whitespace character is anything else has negate unset.
C7_NegateIffLeadingBang ==
    returned =>
        \A pre \in Lits \cup {<<>>}, o \in Openers, ws \in LeadingWs,
           f \in PropForms :
            /\ text = BindingText(pre, o, ws, <<"!">> \o f.txt, <<>>)
                 => /\ isBinding(Len(parts))
                    /\ parts[Len(parts)].negate
                    /\ parts[Len(parts)].source = Some(f.name)
            /\ text = BindingText(pre, o, ws, f.txt, <<>>)
                 => /\ isBinding(Len(parts))
                    /\ ~parts[Len(parts)].negate
                    /\ parts[Len(parts)].source = Some(f.name)

C7_Witness ==
    /\ returned
    /\ text = BindingText(<<>>, "[", <<" ">>, <<"!", "a", ".", "b">>, <<>>)
    /\ isBinding(1)
    /\ parts[1].negate

\* C8: no literal part of the result has zero-length text.
C8_NoEmptyLiteral ==
    \A k \in 1..Len(parts) :
        isLiteralPart(parts[k]) => parts[k].literal # <<>>

\* two adjacent bindings at the start of the text: both the literal before
\* the first and the literal between the two are empty and were skipped
C8_Witness ==
    /\ returned
    /\ Len(parts) = 2
    /\ isBinding(1)
    /\ isBinding(2)
    /\ parts[1].startChar = Some(5)
    /\ parts[2].startChar = Some(Len(text))

lastBinding ==
    CHOOSE k \in 1..Len(parts) :
        isBinding(k) /\ \A j \in (k + 1)..Len(parts) : ~isBinding(j)

\* C9: the text after the closing delimiter of the last emitted binding is
\* flushed as one final literal part equal to exactly that text (no part
\* when it is empty).
C9_TrailingTextIsFinalLiteral ==
    (returned /\ \E k \in 1..Len(parts) : isBinding(k))
        => LET k == lastBinding
               trailing == SubSeq(text, parts[k].startChar[1] + 1, Len(text))
           IN  IF trailing = <<>>
               THEN Len(parts) = k
               ELSE /\ Len(parts) = k + 1
                    /\ parts[k + 1] = [literal |-> trailing]

\* C10: every emitted binding part has a source or a signature, never
\* both and never neither.
C10_SourceXorSignature ==
    \A k \in 1..Len(parts) :
        isBinding(k)
            => (parts[k].source # Undefined) # (parts[k].signature # Undefined)

C10_Witness ==
    /\ returned
    /\ \E k \in 1..Len(parts) : isBinding(k) /\ parts[k].source # Undefined
    /\ \E k \in 1..Len(parts) : isBinding(k) /\ parts[k].signature # Undefined

isMethodBinding(k) == isBinding(k) /\ parts[k].signature # Undefined

isLiteralArg(arg) == "literal" \in DOMAIN arg

allLiteral(args) == \A k \in 1..Len(args) : isLiteralArg(args[k])

\* C11: signature.static is true exactly when every argument pushed onto the
\* signature is a literal, for every emitted method binding and for the
\* signature under construction; once false it is not set back to true.
C11_StaticIffAllLiteral ==
    /\ \A k \in 1..Len(parts) :
          isMethodBinding(k)
              => (parts[k].signature[1].static
                     <=> allLiteral(parts[k].signature[1].args))
    /\ bindingData.signature # Undefined
          => (bindingData.signature[1].static
                 <=> allLiteral(bindingData.signature[1].args))

\* a literal argument followed by a property argument
C11_Witness ==
    /\ returned
    /\ isMethodBinding(1)
    /\ LET sig == parts[1].signature[1]
       IN  /\ Len(sig.args) = 2
           /\ isLiteralArg(sig.args[1])
           /\ ~isLiteralArg(sig.args[2])
           /\ ~sig.static

dynamicNames ==
    IF templateInfo # Undefined /\ templateInfo[1].dynamicFns # Undefined
    THEN templateInfo[1].dynamicFns[1]
    ELSE {}

occursIn(x, seq) == \E k \in 1..Len(seq) : seq[k] = x

\* C12 as stated: an emitted method call whose name is in the
\* dynamic-function set is non-static and has its name among the
\* dependencies.
C12_DynamicNameMakesNonStatic ==
    \A k \in 1..Len(parts) :
        (isMethodBinding(k) /\ parts[k].signature[1].methodName \in dynamicNames)
            => /\ ~parts[k].signature[1].static
               /\ occursIn(parts[k].signature[1].methodName,
                           parts[k].dependencies)

\* C12 amended: an emitted method call whose name is in the
\* dynamic-function set is flagged dynamicFn and has its name among the
\* dependencies (signature.static stays as the arguments determine it).
C12_DynamicNameIsFlagged ==
    \A k \in 1..Len(parts) :
        (isMethodBinding(k) /\ parts[k].signature[1].methodName \in dynamicNames)
            => /\ parts[k].signature[1].dynamicFn
               /\ occursIn(parts[k].signature[1].methodName,
                           parts[k].dependencies)

\* a dynamic method with a property argument: flagged although non-static
C12_Witness ==
    /\ returned
    /\ isMethodBinding(1)
    /\ parts[1].signature[1].methodName = DynName
    /\ DynName \in dynamicNames
    /\ ~parts[1].signature[1].static
    /\ parts[1].signature[1].dynamicFn

noDuplicates(seq) ==
    \A j, k \in 1..Len(seq) : seq[j] = seq[k] => j = k

\* C13: no name occurs twice in the dependencies of an emitted binding.
C13_DependenciesAreASet ==
    \A k \in 1..Len(parts) :
        isBinding(k) => noDuplicates(parts[k].dependencies)

endsWithWildcard(name) ==
    Len(name) >= 2 /\ SubSeq(name, Len(name) - 1, Len(name)) = <<".", "*">>

\* C14: in "o o m(a1, ..., an) c c", a property argument written with the
\* suffix ".*" is stored with wildcard true and without the suffix; one
\* written without it is not marked wildcard and keeps its full name.
C14_WildcardSuffix ==
    returned =>
        \A o \in Openers, m \in MethodNames, sep \in Separators,
           as \in SeqsUpTo(ArgForms, MaxArgs) :
            text = MethodText(o, m, as, sep)
                => /\ isMethodBinding(1)
                   /\ Len(parts[1].signature[1].args) = Len(as)
                   /\ \A k \in 1..Len(as) :
                         as[k].form = "name"
                             => LET arg == parts[1].signature[1].args[k]
                                IN  /\ ~isLiteralArg(arg)
                                    /\ (arg.wildcard = Some(TRUE))
                                           <=> endsWithWildcard(as[k].txt)
                                    /\ arg.name =
                                          IF endsWithWildcard(as[k].txt)
                                          THEN SubSeq(as[k].txt, 1,
                                                      Len(as[k].txt) - 2)
                                          ELSE as[k].txt

C14_Witness ==
    /\ returned
    /\ isMethodBinding(1)
    /\ Len(parts[1].signature[1].args) = 2
    /\ parts[1].signature[1].args[1] =
          [name |-> <<"b">>, structured |-> TRUE, wildcard |-> Some(TRUE)]
    /\ parts[1].signature[1].args[2] =
          [name |-> <<"a", ".", "b">>, structured |-> TRUE,
           wildcard |-> Some(FALSE)]

\* ========================================================================
\* Part 2: compaction and serialization of property effects
\* (src/src/serialization.ts, src/src/properties.ts)
\* ========================================================================

\* Bound of the input space: effect records in the compute table
MaxEffects == 2

\* ------------------------------------------------------------------------
\* JavaScript values of the effect metadata.  A value is a tagged tuple; an
\* object is the sequence of its own properties <<key, value>> in the order
\* Object.entries reports them; a key is a string (sequence of characters).
\* info and trigger of an effect record are references into the prototype's
\* heap of objects, so that two records can share one object.
\* ------------------------------------------------------------------------
Str(s) == <<"string", s>>

Num(n) == <<"number", n>>

Bool(b) == <<"boolean", b>>

Fn(name) == <<"function", name>>

Obj(entries) == <<"object", entries>>

Arr(items) == <<"array", items>>

Ref(r) == <<"ref", r>>

UndefinedValue == <<"undefined">>

typeOf(v) == v[1]

\* ToBoolean
truthy(v) ==
    CASE typeOf(v) = "undefined" -> FALSE
      [] typeOf(v) = "boolean" -> v[2]
      [] typeOf(v) = "string" -> v[2] # <<>>
      [] typeOf(v) = "number" -> v[2] # 0
      [] OTHER -> TRUE

\* Number.prototype.toString of a non-negative integer
RECURSIVE toString(_)
toString(n) ==
    IF n < 10 THEN <<DigitChars[n + 1]>>
    ELSE toString(n \div 10) \o <<DigitChars[(n % 10) + 1]>>

\* an integer-like key ("0", "7", "12"): such keys come first, in ascending
\* order, in the property order of an object
isArrayIndex(k) == AllDigits(k) /\ k # <<>> /\ (Len(k) = 1 \/ k[1] # "0")

hasOwn(o, k) == \E j \in 1..Len(o[2]) : o[2][j][1] = k

\* o[k]
get(o, k) ==
    IF hasOwn(o, k)
    THEN o[2][CHOOSE j \in 1..Len(o[2]) : o[2][j][1] = k][2]
    ELSE UndefinedValue

\* delete o[k]
delete(o, k) == Obj(SelectSeq(o[2], LAMBDA e : e[1] # k))

\* o[k] = v: an existing property keeps its place, a new integer-like key is
\* placed among the integer-like keys, any other new key goes last
set(o, k, v) ==
    LET es == o[2]
        before(e) == isArrayIndex(e[1]) /\ DecimalValue(e[1]) < DecimalValue(k)
        n == IF isArrayIndex(k)
             THEN Len(SelectSeq(es, before))
             ELSE Len(es)
    IN  IF hasOwn(o, k)
        THEN Obj([j \in 1..Len(es) |->
                    IF es[j][1] = k THEN <<k, v>> ELSE es[j]])
        ELSE Obj(SubSeq(es, 1, n) \o <<<<k, v>>>> \o SubSeq(es, n + 1, Len(es)))

\* Object.values(o)
values(o) == [j \in 1..Len(o[2]) |-> o[2][j][2]]

\* !o[k] && delete o[k]
deleteIfFalsy(o, k) == IF truthy(get(o, k)) THEN o ELSE delete(o, k)

\* JSON.parse(JSON.stringify(v)): a fresh structure without the properties
\* whose value is a function or undefined (null in an array)
RECURSIVE jsonCopy(_)
jsonCopy(v) ==
    CASE typeOf(v) = "object" ->
            LET kept == SelectSeq(v[2], LAMBDA e :
                            typeOf(e[2]) \notin {"function", "undefined"})
            IN  Obj([j \in 1..Len(kept) |->
                        <<kept[j][1], jsonCopy(kept[j][2])>>])
      [] typeOf(v) = "array" ->
            Arr([j \in 1..Len(v[2]) |->
                    IF typeOf(v[2][j]) \in {"function", "undefined"}
                    THEN <<"null">>
                    ELSE jsonCopy(v[2][j])])
      [] OTHER -> v

\* ------------------------------------------------------------------------
\* Property names of the effect metadata, of the prototype, and
\* String(undefined), the property key of `effects[undefined] = v`
\* ------------------------------------------------------------------------
Key ==
    [fn |-> <<"f", "n">>,
     info |-> <<"i", "n", "f", "o">>,
     trigger |-> <<"t", "r", "i", "g", "g", "e", "r">>,
     name |-> <<"n", "a", "m", "e">>,
     structured |-> <<"s", "t", "r", "u", "c", "t", "u", "r", "e", "d">>,
     wildcard |-> <<"w", "i", "l", "d", "c", "a", "r", "d">>,
     rootProperty |-> <<"r", "o", "o", "t", "P", "r", "o", "p", "e", "r", "t", "y">>,
     methodName |-> <<"m", "e", "t", "h", "o", "d", "N", "a", "m", "e">>,
     args |-> <<"a", "r", "g", "s">>,
     methodInfo |-> <<"m", "e", "t", "h", "o", "d", "I", "n", "f", "o">>,
     dynamicFn |-> <<"d", "y", "n", "a", "m", "i", "c", "F", "n">>,
     cacheName |-> <<"c", "a", "c", "h", "e", "N", "a", "m", "e">>,
     part |-> <<"p", "a", "r", "t">>,
     computeEffects |-> <<"_", "_", "c", "o", "m", "p", "u", "t", "e", "E", "f", "f", "e",
      "c", "t", "s">>,
     reflectEffects |-> <<"_", "_", "r", "e", "f", "l", "e", "c", "t", "E", "f", "f", "e",
      "c", "t", "s">>,
     notifyEffects |-> <<"_", "_", "n", "o", "t", "i", "f", "y", "E", "f", "f", "e", "c",
      "t", "s">>,
     propagateEffects |-> <<"_", "_", "p", "r", "o", "p", "a", "g", "a", "t", "e", "E", "f",
      "f", "e", "c", "t", "s">>,
     observeEffects |-> <<"_", "_", "o", "b", "s", "e", "r", "v", "e", "E", "f", "f", "e",
      "c", "t", "s">>,
     readOnly |-> <<"_", "_", "r", "e", "a", "d", "O", "n", "l", "y">>,
     observerArgCache |-> <<"_", "_", "o", "b", "s", "e", "r", "v", "e", "r", "A", "r", "g",
      "C", "a", "c", "h", "e">>,
     undefined |-> <<"u", "n", "d", "e", "f", "i", "n", "e", "d">>]

\* Object.values(prototype.PROPERTY_EFFECT_TYPES)
PROPERTY_EFFECT_TYPES ==
    <<Key.computeEffects, Key.reflectEffects, Key.notifyEffects,
      Key.propagateEffects, Key.observeEffects, Key.readOnly>>

\* Object.entries(Polymer.EFFECT_FUNCTIONS): name and function, in the order
\* the functions are registered
EFFECT_FUNCTIONS ==
    [j \in 1..6 |->
        LET name == <<<<"r", "u", "n", "B", "i", "n", "d", "i", "n", "g", "E", "f", "f",
      "e", "c", "t">>,
                      <<"r", "u", "n", "O", "b", "s", "e", "r", "v", "e", "r", "E", "f",
      "f", "e", "c", "t">>,
                      <<"r", "u", "n", "N", "o", "t", "i", "f", "y", "E", "f", "f", "e",
      "c", "t">>,
                      <<"r", "u", "n", "R", "e", "f", "l", "e", "c", "t", "E", "f", "f",
      "e", "c", "t">>,
                      <<"r", "u", "n", "M", "e", "t", "h", "o", "d", "E", "f", "f", "e",
      "c", "t">>,
                      <<"r", "u", "n", "C", "o", "m", "p", "u", "t", "e", "d", "E", "f",
      "f", "e", "c", "t">>>>[j]
        IN  <<name, Fn(name)>>]

\* the text `Polymer.EFFECT_FUNCTIONS.`
TokenPrefix == <<"P", "o", "l", "y", "m", "e", "r", ".", "E", "F", "F", "E", "C",
      "T", "_", "F", "U", "N", "C", "T", "I", "O", "N", "S", ".">>

\* ------------------------------------------------------------------------
\* serializeRunTimeClosures
\* ------------------------------------------------------------------------
\* the loop over the registry for one effect: `func === effect.fn` compares
\* identities, so a string already stored in fn matches no entry
RECURSIVE serializeClosure(_, _)
serializeClosure(effect, registry) ==
    IF registry = <<>> THEN effect
    ELSE LET name == Head(registry)[1]
             func == Head(registry)[2]
         IN  serializeClosure(
                 IF func = get(effect, Key.fn)
                 THEN set(effect, Key.fn, Str(TokenPrefix \o name))
                 ELSE effect,
                 Tail(registry))

serializeRunTimeClosures_FirstOfEach(propertyEffects) ==
    [j \in 1..Len(propertyEffects) |->
        Arr([k \in 1..Len(propertyEffects[j][2]) |->
                IF k = 1
                THEN serializeClosure(propertyEffects[j][2][k],
                                      EFFECT_FUNCTIONS)
                ELSE propertyEffects[j][2][k]])]

\* propertyEffects is Object.values of one table: a sequence of arrays
serializeRunTimeClosures(propertyEffects) ==
    [j \in 1..Len(propertyEffects) |->
        Arr([k \in 1..Len(propertyEffects[j][2]) |->
                serializeClosure(propertyEffects[j][2][k], EFFECT_FUNCTIONS)])]

\* ------------------------------------------------------------------------
\* The cache context {map, index} of a prototype; the Map is the sequence of
\* its entries <<key, token>> in insertion order.
\* ------------------------------------------------------------------------
NewContext_StartsAtOne == [map |-> <<>>, index |-> 1]

NewContext == [map |-> <<>>, index |-> 0]

mapHas(map, k) == \E j \in 1..Len(map) : map[j][1] = k

\* Map.prototype.get: the token, or undefined
mapGet(map, k) ==
    IF mapHas(map, k)
    THEN Some(map[CHOOSE j \in 1..Len(map) : map[j][1] = k][2])
    ELSE Undefined

\* Map.prototype.set
mapSet(map, k, v) ==
    IF mapHas(map, k)
    THEN [j \in 1..Len(map) |-> IF map[j][1] = k THEN <<k, v>> ELSE map[j]]
    ELSE Append(map, <<k, v>>)

resolveCacheName_NoIncrement(context, cacheName) ==
    LET mapping == mapGet(context.map, cacheName)
    IN  IF mapping = Undefined
        THEN [token |-> toString(context.index),
              context |-> [map |-> mapSet(context.map, cacheName,
                                          toString(context.index)),
                           index |-> context.index]]
        ELSE [token |-> mapping[1], context |-> context]

\* lines 95-99: the token of a cache name and the context after the lookup
resolveCacheName(context, cacheName) ==
    LET mapping == mapGet(context.map, cacheName)
    IN  IF mapping = Undefined
        THEN [token |-> toString(context.index),
              context |-> [map |-> mapSet(context.map, cacheName,
                                          toString(context.index)),
                           index |-> context.index + 1]]
        ELSE [token |-> mapping[1], context |-> context]

\* ------------------------------------------------------------------------
\* stripUnnecessaryEffectData
\* ------------------------------------------------------------------------
\* the object a value refers to
deref(heap, v) == IF typeOf(v) = "ref" THEN heap[v[2]] ELSE v

\* lines 78-81, on the copy of the trigger
stripTrigger(trigger) ==
    deleteIfFalsy(deleteIfFalsy(delete(trigger, Key.rootProperty),
                                Key.structured), Key.wildcard)

\* lines 88-89 and 125-126, for every element of an argument list
stripArgs(args) ==
    Arr([j \in 1..Len(args[2]) |->
            deleteIfFalsy(deleteIfFalsy(args[2][j], Key.structured),
                          Key.wildcard)])

\* lines 86-93, on the copy of the info
stripInfo(info) ==
    LET i1 == IF truthy(get(info, Key.args))
              THEN set(info, Key.args, stripArgs(get(info, Key.args)))
              ELSE info
    IN  deleteIfFalsy(deleteIfFalsy(i1, Key.methodInfo), Key.dynamicFn)

\* the effect at position pos = <<property index, array index>> of a table
effectAt(table, pos) == table[2][pos[1]][2][2][pos[2]]

setEffectAt(table, pos, effect) ==
    Obj([j \in 1..Len(table[2]) |->
            IF j # pos[1] THEN table[2][j]
            ELSE <<table[2][j][1],
                   Arr([k \in 1..Len(table[2][j][2][2]) |->
                           IF k = pos[2] THEN effect
                           ELSE table[2][j][2][2][k]])>>])

\* the positions of a table in the order of the two nested loops
positions(table) ==
    Concat([j \in 1..Len(table[2]) |->
               [k \in 1..Len(table[2][j][2][2]) |-> <<j, k>>]])

stripEffect_InPlace(prototype, type, pos) ==
    LET table == get(prototype.props, type)
        effect == effectAt(table, pos)
        trigger == get(effect, Key.trigger)
        hasTrigger == truthy(trigger)
        heap1 == IF hasTrigger
                 THEN [prototype.heap EXCEPT
                          ![trigger[2]] = stripTrigger(jsonCopy(@))]
                 ELSE prototype.heap
        info == get(effect, Key.info)
        hasInfo == truthy(info)
        info1 == stripInfo(jsonCopy(deref(heap1, info)))
        cacheName == get(info1, Key.cacheName)
        remap == hasInfo /\ truthy(cacheName)
        resolved == resolveCacheName(prototype.context[1], cacheName[2])
        info2 == IF remap
                 THEN set(info1, Key.cacheName, Str(resolved.token))
                 ELSE info1
        info3 == IF truthy(get(info2, Key.part))
                 THEN delete(info2, Key.part)
                 ELSE info2
        heap2 == IF hasInfo THEN [heap1 EXCEPT ![info[2]] = info3] ELSE heap1
    IN  [prototype EXCEPT
            !.heap = heap2,
            !.context = IF remap THEN Some(resolved.context) ELSE @]

\* lines 73-106 for one effect of the table prototype[type]: trigger and
\* info are replaced by stripped copies, allocated at the end of the heap
stripEffect(prototype, type, pos) ==
    LET table == get(prototype.props, type)
        effect == effectAt(table, pos)
        trigger == get(effect, Key.trigger)
        hasTrigger == truthy(trigger)
        heap1 == IF hasTrigger
                 THEN Append(prototype.heap,
                             stripTrigger(jsonCopy(deref(prototype.heap,
                                                         trigger))))
                 ELSE prototype.heap
        effect1 == IF hasTrigger
                   THEN set(effect, Key.trigger, Ref(Len(heap1)))
                   ELSE effect
        info == get(effect1, Key.info)
        hasInfo == truthy(info)
        info1 == stripInfo(jsonCopy(deref(prototype.heap, info)))
        cacheName == get(info1, Key.cacheName)
        remap == hasInfo /\ truthy(cacheName)
        resolved == resolveCacheName(prototype.context[1], cacheName[2])
        info2 == IF remap
                 THEN set(info1, Key.cacheName, Str(resolved.token))
                 ELSE info1
        info3 == IF truthy(get(info2, Key.part))
                 THEN delete(info2, Key.part)
                 ELSE info2
        heap2 == IF hasInfo THEN Append(heap1, info3) ELSE heap1
        effect2 == IF hasInfo
                   THEN set(effect1, Key.info, Ref(Len(heap2)))
                   ELSE effect1
    IN  [prototype EXCEPT
            !.props = set(@, type, setEffectAt(table, pos, effect2)),
            !.heap = heap2,
            !.context = IF remap THEN Some(resolved.context) ELSE @]

RECURSIVE stripEffects(_, _, _)
stripEffects(prototype, type, todo) ==
    IF todo = <<>> THEN prototype
    ELSE stripEffects(stripEffect(prototype, type, Head(todo)), type,
                      Tail(todo))

\* stripUnnecessaryEffectData(Object.values(prototype[type]), prototype)
stripUnnecessaryEffectData(prototype, type) ==
    LET created == [prototype EXCEPT
                       !.context = IF @ = Undefined
                                   THEN Some(NewContext) ELSE @]
    IN  stripEffects(created, type, positions(get(prototype.props, type)))

\* ------------------------------------------------------------------------
\* patchUpObserverArgCache
\* ------------------------------------------------------------------------
\* the property key of effects[map.get(k)]
propertyKey(mapping) == IF mapping = Undefined THEN Key.undefined
                        ELSE mapping[1]

\* lines 121-127 for the entries Object.entries reported before the loop:
\* v is stored under its token, k is deleted, and the arguments of v lose
\* their default fields
RECURSIVE patchEntries(_, _, _)
patchEntries(effects, map, entries) ==
    IF entries = <<>> THEN effects
    ELSE LET k == Head(entries)[1]
             v == Head(entries)[2]
         IN  patchEntries(
                 delete(set(effects, propertyKey(mapGet(map, k)),
                            stripArgs(v)), k),
                 map, Tail(entries))

patchUpObserverArgCache(effects, map) == patchEntries(effects, map, effects[2])

\* ------------------------------------------------------------------------
\* JSON.stringify and the two quote-stripping passes
\* ------------------------------------------------------------------------
\* the quoted form of a string: '"' and '\' are escaped
quoteString(s) ==
    <<"\"">> \o
    Concat([j \in 1..Len(s) |->
               IF s[j] \in {"\"", "\\"} THEN <<"\\", s[j]>> ELSE <<s[j]>>])
    \o <<"\"">>

RECURSIVE join(_, _)
join(ss, sep) ==
    IF ss = <<>> THEN <<>>
    ELSE IF Len(ss) = 1 THEN ss[1]
    ELSE ss[1] \o sep \o join(Tail(ss), sep)

\* JSON.stringify(v), references followed through the heap: a property whose
\* value is a function or undefined is left out, such an array element is
\* written as null
RECURSIVE stringify(_, _)
stringify(v, heap) ==
    CASE typeOf(v) = "string" -> quoteString(v[2])
      [] typeOf(v) = "number" -> toString(v[2])
      [] typeOf(v) = "boolean" -> IF v[2] THEN <<"t", "r", "u", "e">> ELSE <<"f", "a", "l", "s", "e">>
      [] typeOf(v) = "ref" -> stringify(heap[v[2]], heap)
      [] typeOf(v) = "array" ->
            <<"[">> \o
            join([j \in 1..Len(v[2]) |->
                     IF typeOf(v[2][j]) \in {"function", "undefined"}
                     THEN <<"n", "u", "l", "l">>
                     ELSE stringify(v[2][j], heap)], <<",">>)
            \o <<"]">>
      [] typeOf(v) = "object" ->
            LET kept == SelectSeq(v[2], LAMBDA e :
                            typeOf(e[2]) \notin {"function", "undefined"})
            IN  <<"{">> \o
                join([j \in 1..Len(kept) |->
                         quoteString(kept[j][1]) \o <<":">> \o
                         stringify(kept[j][2], heap)], <<",">>)
                \o <<"}">>
      [] OTHER -> <<"n", "u", "l", "l">>

\* the class \w
WordChars ==
    {"a", "b", "c", "d", "e", "f", "g", "h", "i", "j", "k", "l", "m", "n",
     "o", "p", "q", "r", "s", "t", "u", "v", "w", "x", "y", "z",
     "A", "B", "C", "D", "E", "F", "G", "H", "I", "J", "K", "L", "M", "N",
     "O", "P", "Q", "R", "S", "T", "U", "V", "W", "X", "Y", "Z",
     "0", "1", "2", "3", "4", "5", "6", "7", "8", "9", "_"}

\* the length of the longest run of \w characters of s that starts at from
RECURSIVE wordRun(_, _)
wordRun(s, from) ==
    IF from <= Len(s) /\ s[from] \in WordChars
    THEN 1 + wordRun(s, from + 1)
    ELSE 0

\* does /"(\w+)":/ match s at from
keyMatches(s, from) ==
    LET n == wordRun(s, from + 1)
    IN  /\ s[from] = "\""
        /\ n > 0
        /\ from + n + 2 <= Len(s)
        /\ s[from + n + 1] = "\""
        /\ s[from + n + 2] = ":"

\* the positions of s that /"(\w+)":/ matches at, as an enumerated set
keyMatchesOf(s) == DOMAIN [f \in {g \in 1..Len(s) : keyMatches(s, g)} |-> TRUE]

\* the leftmost match at or after from, 0 when there is none
nextMatch(found, from) ==
    LET rest == {f \in found : f >= from}
    IN  IF rest = {} THEN 0
        ELSE CHOOSE f \in rest : \A g \in rest : f <= g

\* s.replace(/"(\w+)":/g, '$1:') from position from on: the text up to the
\* leftmost match, the replacement, and the rest after the match
RECURSIVE replaceKeys(_, _, _)
replaceKeys(s, found, from) ==
    LET f == nextMatch(found, from)
        n == wordRun(s, f + 1)
    IN  IF f = 0 THEN SubSeq(s, from, Len(s))
        ELSE SubSeq(s, from, f - 1) \o SubSeq(s, f + 1, f + n) \o
             <<":">> \o replaceKeys(s, found, f + n + 3)

unquoteKeys(s) == replaceKeys(s, keyMatchesOf(s), 1)

stripSerializedMetadata(metadata, heap) ==
    unquoteKeys(stringify(metadata, heap))

\* does /Polymer.EFFECT_FUNCTIONS./ match s at from: a dot of the pattern
\* matches any character but a line break
prefixMatches(s, from) ==
    /\ from + Len(TokenPrefix) - 1 <= Len(s)
    /\ \A j \in 1..Len(TokenPrefix) :
          IF TokenPrefix[j] = "."
          THEN s[from + j - 1] # "\n"
          ELSE s[from + j - 1] = TokenPrefix[j]

\* does /"Polymer.EFFECT_FUNCTIONS.(\w+)"/ match s at from
tokenMatches(s, from) ==
    LET start == from + 1 + Len(TokenPrefix)
        n == wordRun(s, start)
    IN  /\ s[from] = "\""
        /\ prefixMatches(s, from + 1)
        /\ n > 0
        /\ start + n <= Len(s)
        /\ s[start + n] = "\""

\* the positions of s the token pattern matches at, as an enumerated set
tokenMatchesOf(s) ==
    DOMAIN [f \in {g \in 1..Len(s) : tokenMatches(s, g)} |-> TRUE]

\* s.replace(/"Polymer.EFFECT_FUNCTIONS.(\w+)"/mg,
\*           'Polymer.EFFECT_FUNCTIONS.$1') from position from on
RECURSIVE replaceTokens(_, _, _)
replaceTokens(s, found, from) ==
    LET f == nextMatch(found, from)
        start == f + 1 + Len(TokenPrefix)
        n == wordRun(s, start)
    IN  IF f = 0 THEN SubSeq(s, from, Len(s))
        ELSE SubSeq(s, from, f - 1) \o TokenPrefix \o
             SubSeq(s, start, start + n - 1) \o
             replaceTokens(s, found, start + n + 1)

unquoteTokens(s) == replaceTokens(s, tokenMatchesOf(s), 1)

\* ------------------------------------------------------------------------
\* serializeEffectsInBrowser, one step per call it makes.  A prototype is
\*   props            its own properties (the effect tables by type and
\*                    __observerArgCache),
\*   context          the cache context, undefined until first created,
\*   heap             the objects info and trigger refer to,
\*   preBuiltEffects  the keys of the local object preBuiltEffects, whose
\*                    values are the tables of props themselves,
\*   pc               the next statement, output the returned text,
\*   raw              props as handed in (history, never read by a step).
\* ------------------------------------------------------------------------
\* Object.values(table) written back into the table
withValues(table, vals) ==
    Obj([j \in 1..Len(table[2]) |-> <<table[2][j][1], vals[j]>>])

\* lines 38-44
RECURSIVE collectEffects(_, _)
collectEffects(prototype, types) ==
    IF types = <<>> THEN prototype
    ELSE LET effectType == Head(types)
             table == get(prototype.props, effectType)
         IN  collectEffects(
                 IF truthy(table)
                 THEN [prototype EXCEPT
                          !.preBuiltEffects = Append(@, effectType),
                          !.props = set(@, effectType,
                              withValues(table,
                                  serializeRunTimeClosures(values(table))))]
                 ELSE prototype,
                 Tail(types))

At2(p, label) == p \in DOMAIN protos /\ protos[p].pc = label

\* The read prototype.context follows the prototype chain: the prototype
\* that owns the context the read finds. parent is the position of the
\* object a prototype inherits from, 0 when that object is not one of the
\* prototypes.
contextOwner(p) ==
    IF /\ protos[p].context = Undefined
       /\ protos[p].parent # 0
       /\ protos[protos[p].parent].context # Undefined
    THEN protos[p].parent
    ELSE p

\* the prototype p with the context its reads find
seen(p) == [protos[p] EXCEPT !.context = protos[contextOwner(p)].context]

\* the prototypes after a call for p that leaves p as result: an inherited
\* context is written where it lives, a created one is p's own
writeBack(p, result) ==
    LET owner == contextOwner(p)
    IN  [q \in DOMAIN protos |->
            IF q = p
            THEN IF owner = p THEN result
                 ELSE [result EXCEPT !.context = Undefined]
            ELSE IF q = owner
                 THEN [protos[q] EXCEPT !.context = result.context]
                 ELSE protos[q]]

SerializeClosures(p) ==
    /\ At2(p, "closures")
    /\ protos' = [protos EXCEPT ![p] =
          [collectEffects(@, Append(PROPERTY_EFFECT_TYPES,
                                    Key.observerArgCache))
              EXCEPT !.pc = "compute"]]
    /\ UNCHANGED <<parserVars, transform, observer>>

\* lines 46-49
StripCompute(p) ==
    /\ At2(p, "compute")
    /\ protos' = writeBack(p,
          [(IF truthy(get(protos[p].props, Key.computeEffects))
            THEN stripUnnecessaryEffectData(seen(p), Key.computeEffects)
            ELSE seen(p))
              EXCEPT !.pc = "observe"])
    /\ UNCHANGED <<parserVars, transform, observer>>

StripObserve_NotBeforePatch(p) ==
    /\ At2(p, "observe")
    /\ protos' = [protos EXCEPT ![p] = [@ EXCEPT !.pc = "patch"]]
    /\ UNCHANGED <<parserVars, transform, observer>>

\* lines 51-54
StripObserve(p) ==
    /\ At2(p, "observe")
    /\ protos' = writeBack(p,
          [(IF truthy(get(protos[p].props, Key.observeEffects))
            THEN stripUnnecessaryEffectData(seen(p), Key.observeEffects)
            ELSE seen(p))
              EXCEPT !.pc = "patch"])
    /\ UNCHANGED <<parserVars, transform, observer>>

\* lines 56-59: reading prototype.context.map throws a TypeError when no
\* context was created
Patch(p) ==
    /\ At2(p, "patch")
    /\ LET prototype == seen(p)
           cache == get(prototype.props, Key.observerArgCache)
       IN  protos' = [protos EXCEPT ![p] =
              IF ~truthy(cache) THEN [@ EXCEPT !.pc = "serialize"]
              ELSE IF prototype.context = Undefined
              THEN [@ EXCEPT !.pc = "threw"]
              ELSE [@ EXCEPT
                      !.props = set(@, Key.observerArgCache,
                          patchUpObserverArgCache(cache,
                              prototype.context[1].map)),
                      !.pc = "serialize"]]
    /\ UNCHANGED <<parserVars, transform, observer>>

\* the object preBuiltEffects at the time it is serialized
preBuilt(prototype) ==
    Obj([j \in 1..Len(prototype.preBuiltEffects) |->
            <<prototype.preBuiltEffects[j],
              get(prototype.props, prototype.preBuiltEffects[j])>>])

\* lines 61-63
serialized(prototype) ==
    unquoteTokens(stripSerializedMetadata(preBuilt(prototype),
                                          prototype.heap))

Serialize(p) ==
    /\ At2(p, "serialize")
    /\ protos' = [protos EXCEPT ![p] =
          [@ EXCEPT !.output = Some(serialized(protos[p])), !.pc = "done"]]
    /\ UNCHANGED <<parserVars, transform, observer>>

\* ------------------------------------------------------------------------
\* Inputs of the compaction: prototypes as the runtime leaves them
\* ------------------------------------------------------------------------
argA ==
    Obj(<<<<Key.name, Str(<<"a">>)>>, <<Key.structured, Bool(FALSE)>>,
          <<Key.wildcard, Bool(FALSE)>>, <<Key.rootProperty, Str(<<"a">>)>>>>)

argAB ==
    Obj(<<<<Key.name, Str(<<"a", ".", "b">>)>>, <<Key.structured, Bool(TRUE)>>,
          <<Key.wildcard, Bool(FALSE)>>, <<Key.rootProperty, Str(<<"a">>)>>>>)

longA == <<"l", "o", "n", "g", "A">>

longB == <<"l", "o", "n", "g", "B">>

longC == <<"l", "o", "n", "g", "C">>

\* a cache name that is itself a decimal string
decimalName == <<"1">>

\* a cache name no effect refers to
deadName == <<"d", "e", "a", "d">>

methodInfo(methodName, info, dynamicFn, cacheName) ==
    Obj(<<<<Key.methodName, Str(methodName)>>, <<Key.methodInfo, info>>,
          <<Key.dynamicFn, Bool(dynamicFn)>>,
          <<Key.cacheName, Str(cacheName)>>>>)

\* the objects on the heap before compaction
RawHeap ==
    <<argA,
      argAB,
      methodInfo(<<"m">>, Str(<<"c">>), FALSE, longA),
      methodInfo(<<"n">>, UndefinedValue, TRUE, longB),
      Obj(<<<<Key.methodName, Str(<<"m">>)>>,
            <<Key.args, Arr(<<argA, argAB>>)>>,
            <<Key.methodInfo, Str(<<"c">>)>>,
            <<Key.dynamicFn, Bool(FALSE)>>>>),
      methodInfo(<<"m">>, UndefinedValue, FALSE, decimalName),
      methodInfo(<<"o">>, UndefinedValue, FALSE, longC),
      Obj(<<<<<<"e", "v", "e", "n", "t", "N", "a", "m", "e">>, Str(<<"a", "-", "c", "h", "a", "n", "g", "e", "d">>)>>,
            <<<<"p", "r", "o", "p", "e", "r", "t", "y">>, Str(<<"a">>)>>>>)>>

effectRecord(fn, info, trigger) ==
    Obj(<<<<Key.fn, fn>>, <<Key.info, info>>, <<Key.trigger, trigger>>>>)

registered(j) == EFFECT_FUNCTIONS[j][2]

\* a function that is not in the registry
customFn == Fn(<<"c", "u", "s", "t", "o", "m">>)

\* records of __computeEffects: method effects with a cache name, one with
\* its arguments inline and a function outside the registry, one whose
\* cache name is a decimal string, one whose trigger and info are the same
\* object
ComputeForms ==
    {effectRecord(registered(6), Ref(3), Ref(1)),
     effectRecord(registered(6), Ref(4), Ref(2)),
     effectRecord(customFn, Ref(5), Ref(1)),
     effectRecord(registered(5), Ref(6), Ref(2)),
     effectRecord(registered(6), Ref(3), Ref(3))}

\* a table of the records rs: all under property a, or the first under a
\* and the others under b
TablesOf(rs) ==
    {Obj(<<<<<<"a">>, Arr(rs)>>>>)} \cup
    (IF Len(rs) < 2 THEN {}
     ELSE {Obj(<<<<<<"a">>, Arr(<<Head(rs)>>)>>,
                 <<<<"b">>, Arr(Tail(rs))>>>>)})

ComputeTables ==
    {UndefinedValue, Obj(<<>>)} \cup
    UNION {TablesOf(rs) : rs \in SeqsUpTo(ComputeForms, MaxEffects) \ {<<>>}}

ObserveTables ==
    {UndefinedValue,
     Obj(<<<<<<"a">>,
             Arr(<<effectRecord(registered(2), Ref(3), Ref(1))>>)>>>>),
     Obj(<<<<<<"b">>,
             Arr(<<effectRecord(registered(2), Ref(7), Ref(2))>>)>>>>)}

NotifyTables ==
    {UndefinedValue,
     Obj(<<<<<<"a">>,
             Arr(<<effectRecord(registered(3), Ref(8), Ref(1))>>)>>>>)}

\* __observerArgCache: argument lists by cache name
ArgCaches ==
    {UndefinedValue,
     Obj(<<<<longA, Arr(<<argA>>)>>>>),
     Obj(<<<<longA, Arr(<<argA>>)>>, <<longB, Arr(<<argAB>>)>>>>),
     Obj(<<<<deadName, Arr(<<argAB>>)>>, <<longA, Arr(<<argA>>)>>>>),
     Obj(<<<<decimalName, Arr(<<argA, argAB>>)>>,
           <<longA, Arr(<<argAB>>)>>>>)}

rawProps(compute, observe, notify, cache) ==
    Obj(SelectSeq(<<<<Key.computeEffects, compute>>,
                    <<Key.observeEffects, observe>>,
                    <<Key.notifyEffects, notify>>,
                    <<Key.observerArgCache, cache>>>>,
                  LAMBDA e : e[2] # UndefinedValue))

newPrototype(props) ==
    [props |-> props, context |-> Undefined, heap |-> RawHeap,
     preBuiltEffects |-> <<>>, pc |-> "closures", output |-> Undefined,
     raw |-> props, parent |-> 0]

Prototypes ==
    {newPrototype(rawProps(c, o, n, a)) :
        c \in ComputeTables, o \in ObserveTables, n \in NotifyTables,
        a \in ArgCaches}

EffectsInit ==
    /\ protos \in {<<prototype>> : prototype \in Prototypes}
    /\ text = <<>>
    /\ templateInfo = Undefined
    /\ parts = <<>>
    /\ bindingData = EmptyObject
    /\ escaped = FALSE
    /\ quote = Undefined
    /\ state = "INITIAL"
    /\ i = 0
    /\ warnings = <<>>
    /\ pc = "idle"
    /\ transform = NoTransform
    /\ observer = NoObserver

EffectsNext ==
    \E p \in DOMAIN protos :
        \/ SerializeClosures(p)
        \/ StripCompute(p)
        \/ StripObserve(p)
        \/ Patch(p)
        \/ Serialize(p)

EffectsSpec == EffectsInit /\ [][EffectsNext]_vars

\* ========================================================================
\* Properties of the compaction (specification EffectsSpec)
\* ========================================================================
\* the effect tables a prototype was handed in with: <<type, table>>
rawTables(prototype) ==
    SelectSeq(prototype.raw[2], LAMBDA e : e[1] # Key.observerArgCache)

\* the positions <<type, pos>> of all effect records of a prototype
RECURSIVE recordsOf(_)
recordsOf(tables) ==
    IF tables = <<>> THEN <<>>
    ELSE LET type == Head(tables)[1]
             ps == positions(Head(tables)[2])
         IN  [j \in 1..Len(ps) |-> <<type, ps[j]>>] \o recordsOf(Tail(tables))

Range(f) == {f[x] : x \in DOMAIN f}

Records(prototype) == Range(recordsOf(rawTables(prototype)))

rawEffect(prototype, r) == effectAt(get(prototype.raw, r[1]), r[2])

nowEffect(prototype, r) == effectAt(get(prototype.props, r[1]), r[2])

inRegistry(fn) == \E j \in 1..Len(EFFECT_FUNCTIONS) : EFFECT_FUNCTIONS[j][2] = fn

registryName(fn) ==
    EFFECT_FUNCTIONS[CHOOSE j \in 1..Len(EFFECT_FUNCTIONS) :
                         EFFECT_FUNCTIONS[j][2] = fn][1]

\* C20: once serializeRunTimeClosures has run over the tables of a
\* prototype, the fn of every effect record whose function is a registry
\* entry is the text 'Polymer.EFFECT_FUNCTIONS.<name>' of that entry, the
\* fn of a record whose function is not in the registry is still that
\* function, info and trigger of no record were touched, and the call
\* returned normally (the next statement is the compute strip).
C20_ClosuresBecomeTokens ==
    \A p \in DOMAIN protos :
        protos[p].pc = "compute" =>
            \A r \in Records(protos[p]) :
                LET before == rawEffect(protos[p], r)
                    after == nowEffect(protos[p], r)
                    fn == get(before, Key.fn)
                IN  /\ inRegistry(fn) =>
                          get(after, Key.fn) =
                              Str(TokenPrefix \o registryName(fn))
                    /\ ~inRegistry(fn) => after = before
                    /\ get(after, Key.info) = get(before, Key.info)
                    /\ get(after, Key.trigger) = get(before, Key.trigger)

\* the closures of a table with two registry functions in one array and of
\* a record with a function outside the registry were serialized
C20_Witness ==
    /\ protos # <<>>
    /\ protos[1].pc = "compute"
    /\ \E r \in Records(protos[1]) :
          /\ r[2][2] = 2
          /\ inRegistry(get(rawEffect(protos[1], r), Key.fn))
          /\ typeOf(get(nowEffect(protos[1], r), Key.fn)) = "string"
    /\ \E r \in Records(protos[1]) :
          /\ get(rawEffect(protos[1], r), Key.fn) = customFn
          /\ get(nowEffect(protos[1], r), Key.fn) = customFn

\* the cache name of the info a raw effect record refers to, or undefined
rawCacheName(prototype, r) ==
    LET info == get(rawEffect(prototype, r), Key.info)
    IN  IF truthy(info) THEN get(deref(RawHeap, info), Key.cacheName)
        ELSE UndefinedValue

\* the cache name of the info an effect record refers to now
nowCacheName(prototype, r) ==
    LET info == get(nowEffect(prototype, r), Key.info)
    IN  IF truthy(info) THEN get(deref(prototype.heap, info), Key.cacheName)
        ELSE UndefinedValue

\* the effect types stripUnnecessaryEffectData has processed so far
strippedTypes(prototype) ==
    CASE prototype.pc \in {"closures", "compute"} -> <<>>
      [] prototype.pc = "observe" -> <<Key.computeEffects>>
      [] OTHER -> <<Key.computeEffects, Key.observeEffects>>

\* the records of the processed tables, in processing order
strippedRecords(prototype) ==
    LET types == SelectSeq(strippedTypes(prototype),
                           LAMBDA t : hasOwn(prototype.raw, t))
    IN  recordsOf([j \in 1..Len(types) |->
                      <<types[j], get(prototype.raw, types[j])>>])

\* a sequence without the later occurrences of its elements
RECURSIVE firstUses(_)
firstUses(seq) ==
    IF seq = <<>> THEN <<>>
    ELSE LET front == firstUses(SubSeq(seq, 1, Len(seq) - 1))
             last == seq[Len(seq)]
         IN  IF \E j \in 1..Len(front) : front[j] = last THEN front
             ELSE Append(front, last)

\* the cache names resolved so far on a prototype, in the order of the calls
resolvedNames(prototype) ==
    LET rs == SelectSeq(strippedRecords(prototype),
                        LAMBDA r : truthy(rawCacheName(prototype, r)))
    IN  [j \in 1..Len(rs) |-> rawCacheName(prototype, rs[j])[2]]

\* C15: on one context the j-th distinct cache name, in the order of first
\* use, is mapped to the decimal string of j - 1, the counter is the number
\* of distinct names, and every resolution of a name, first or later,
\* stored the token of that name in the record.
C15_TokensByOrderOfFirstUse ==
    \A p \in DOMAIN protos :
        protos[p].context # Undefined =>
            LET context == protos[p].context[1]
                names == firstUses(resolvedNames(protos[p]))
                rs == strippedRecords(protos[p])
            IN  /\ context.index = Len(names)
                /\ context.map =
                      [j \in 1..Len(names) |-> <<names[j], toString(j - 1)>>]
                /\ \A j \in 1..Len(rs) :
                      truthy(rawCacheName(protos[p], rs[j])) =>
                          nowCacheName(protos[p], rs[j]) =
                              Str(mapGet(context.map,
                                    rawCacheName(protos[p], rs[j])[2])[1])

\* "longA", "longB", "longA" were resolved in this order on a fresh context
\* and the records hold "0", "1", "0"
C15_Witness ==
    /\ protos # <<>>
    /\ protos[1].pc = "patch"
    /\ resolvedNames(protos[1]) = <<longA, longB, longA>>
    /\ LET rs == strippedRecords(protos[1])
       IN  [j \in 1..3 |-> nowCacheName(protos[1], rs[j])] =
               <<Str(<<"0">>), Str(<<"1">>), Str(<<"0">>)>>

\* has the observer-argument cache of a prototype been rekeyed
rekeyed(prototype) ==
    get(prototype.props, Key.observerArgCache) #
        get(prototype.raw, Key.observerArgCache)

\* the records of __computeEffects and __observeEffects
methodRecords(prototype) ==
    {r \in Records(prototype) :
        r[1] \in {Key.computeEffects, Key.observeEffects}}

\* stripUnnecessaryEffectData has processed the record: a record with a
\* cache name holds the token the alias map has for that name
processed(prototype, r) ==
    truthy(rawCacheName(prototype, r)) =>
        /\ prototype.context # Undefined
        /\ mapHas(prototype.context[1].map, rawCacheName(prototype, r)[2])
        /\ nowCacheName(prototype, r) =
              Str(mapGet(prototype.context[1].map,
                         rawCacheName(prototype, r)[2])[1])

\* C19: within one prototype's compaction the observer-argument cache is
\* untouched until patchUpObserverArgCache is about to be called, and from
\* that moment on every record of __computeEffects and __observeEffects has
\* been processed by stripUnnecessaryEffectData, so that every cache name an
\* effect refers to has a token in the alias map when the table is rekeyed.
C19_PatchAfterStrips ==
    \A p \in DOMAIN protos :
        /\ protos[p].pc \in {"closures", "compute", "observe", "patch"} =>
              ~rekeyed(protos[p])
        /\ protos[p].pc \in {"patch", "serialize", "done"} =>
              /\ \A r \in methodRecords(protos[p]) : processed(protos[p], r)
              /\ \A r \in Records(protos[p]) :
                    truthy(rawCacheName(protos[p], r)) =>
                        mapHas(protos[p].context[1].map,
                               rawCacheName(protos[p], r)[2])

\* the cache was rekeyed with tokens that the compute strip and the observe
\* strip assigned
C19_Witness ==
    /\ protos # <<>>
    /\ protos[1].pc = "serialize"
    /\ rekeyed(protos[1])
    /\ \E r \in Records(protos[1]) :
          /\ r[1] = Key.computeEffects
          /\ rawCacheName(protos[1], r) = Str(longB)
    /\ \E r \in Records(protos[1]) :
          /\ r[1] = Key.observeEffects
          /\ rawCacheName(protos[1], r) = Str(longA)
          /\ nowCacheName(protos[1], r) = Str(<<"1">>)
    /\ get(protos[1].props, Key.observerArgCache) =
          Obj(<<<<<<"0">>, stripArgs(Arr(<<argAB>>))>>,
                <<<<"1">>, stripArgs(Arr(<<argA>>))>>>>)

\* the observer-argument cache of a prototype was patched
patched(prototype) ==
    /\ prototype.pc \in {"serialize", "done"}
    /\ hasOwn(prototype.raw, Key.observerArgCache)

\* the cache names of the raw cache that no effect refers to
deadNames(prototype) ==
    {k \in Range(get(prototype.raw, Key.observerArgCache)[2]) :
        ~mapHas(prototype.context[1].map, k[1])}

\* C18: after patchUpObserverArgCache the argument list of a cache name
\* that has no entry in the alias map is the value of no property of the
\* resulting table.
C18_DeadEntryIsDropped ==
    \A p \in DOMAIN protos :
        patched(protos[p]) =>
            \A k \in deadNames(protos[p]) :
                \A e \in Range(get(protos[p].props, Key.observerArgCache)[2]) :
                    e[2] # stripArgs(k[2])

\* C16: a second stripUnnecessaryEffectData over the compacted compute and
\* observe tables, on the same prototype context, leaves trigger and info
\* of every record (the cache name token included) as they are, and the
\* serialized text is the same as without the second pass.
C16_StripIsIdempotent ==
    \A p \in DOMAIN protos :
        protos[p].pc = "patch" =>
            LET once == protos[p]
                pass(prototype, type) ==
                    IF truthy(get(prototype.props, type))
                    THEN stripUnnecessaryEffectData(prototype, type)
                    ELSE prototype
                twice == pass(pass(once, Key.computeEffects),
                              Key.observeEffects)
                field(prototype, r, key) ==
                    deref(prototype.heap, get(nowEffect(prototype, r), key))
            IN  /\ \A r \in methodRecords(once) :
                      /\ field(twice, r, Key.info) = field(once, r, Key.info)
                      /\ field(twice, r, Key.trigger) =
                            field(once, r, Key.trigger)
                /\ serialized(twice) = serialized(once)

\* ------------------------------------------------------------------------
\* A reader of the serialized text: object and array literals, quoted
\* strings, numbers, true, false, null, keys quoted or bare, and bare member
\* expressions, which are resolved against the registry of effect functions.
\* Every read operator returns <<value, position after the value>>.
\* ------------------------------------------------------------------------
\* the characters of a string literal from position at (after the opening
\* quote) to its closing quote
RECURSIVE readString(_, _, _)
readString(s, at, acc) ==
    IF at > Len(s) THEN <<acc, at>>
    ELSE IF s[at] = "\"" THEN <<acc, at + 1>>
    ELSE IF s[at] = "\\" /\ at < Len(s)
         THEN readString(s, at + 2, Append(acc, s[at + 1]))
         ELSE readString(s, at + 1, Append(acc, s[at]))

\* the length of the run of \w characters and dots that starts at from
RECURSIVE bareRun(_, _)
bareRun(s, from) ==
    IF from <= Len(s) /\ s[from] \in WordChars \cup {"."}
    THEN 1 + bareRun(s, from + 1)
    ELSE 0

startsWith(s, prefix) ==
    Len(s) >= Len(prefix) /\ SubSeq(s, 1, Len(prefix)) = prefix

\* the value of a bare word; a member expression that names no registry
\* entry cannot be resolved
bareValue(word) ==
    LET name == SubSeq(word, Len(TokenPrefix) + 1, Len(word))
    IN  CASE word = <<"t", "r", "u", "e">> -> Bool(TRUE)
          [] word = <<"f", "a", "l", "s", "e">> -> Bool(FALSE)
          [] word = <<"n", "u", "l", "l">> -> <<"null">>
          [] word # <<>> /\ AllDigits(word) -> Num(DecimalValue(word))
          [] startsWith(word, TokenPrefix) /\ inRegistry(Fn(name)) -> Fn(name)
          [] OTHER -> <<"unresolved", word>>

RECURSIVE readValue(_, _)
RECURSIVE readEntries(_, _, _)
RECURSIVE readItems(_, _, _)
readValue(s, at) ==
    IF at > Len(s) THEN <<<<"unresolved", <<>>>>, at>>
    ELSE CASE s[at] = "{" ->
                IF at < Len(s) /\ s[at + 1] = "}"
                THEN <<Obj(<<>>), at + 2>>
                ELSE readEntries(s, at + 1, Obj(<<>>))
           [] s[at] = "[" ->
                IF at < Len(s) /\ s[at + 1] = "]"
                THEN <<Arr(<<>>), at + 2>>
                ELSE readItems(s, at + 1, <<>>)
           [] s[at] = "\"" ->
                LET r == readString(s, at + 1, <<>>)
                IN  <<Str(r[1]), r[2]>>
           [] OTHER ->
                LET n == bareRun(s, at)
                IN  <<bareValue(SubSeq(s, at, at + n - 1)), at + n +
                      (IF n = 0 THEN 1 ELSE 0)>>

\* key:value pairs up to the closing brace, assigned in the order read
readEntries(s, at, obj) ==
    LET key == IF at <= Len(s) /\ s[at] = "\""
               THEN readString(s, at + 1, <<>>)
               ELSE <<SubSeq(s, at, at + wordRun(s, at) - 1),
                      at + wordRun(s, at)>>
        val == readValue(s, key[2] + 1)
        next == set(obj, key[1], val[1])
    IN  IF val[2] <= Len(s) /\ s[val[2]] = ","
        THEN readEntries(s, val[2] + 1, next)
        ELSE <<next, val[2] + 1>>

\* values up to the closing bracket
readItems(s, at, items) ==
    LET val == readValue(s, at)
    IN  IF val[2] <= Len(s) /\ s[val[2]] = ","
        THEN readItems(s, val[2] + 1, Append(items, val[1]))
        ELSE <<Arr(Append(items, val[1])), val[2] + 1>>

\* the value a text reads back as
readBack(s) == readValue(s, 1)[1]

\* a structure with every reference replaced by the object it refers to
RECURSIVE expand(_, _)
expand(v, heap) ==
    CASE typeOf(v) = "ref" -> expand(heap[v[2]], heap)
      [] typeOf(v) = "object" ->
            Obj([j \in 1..Len(v[2]) |->
                    <<v[2][j][1], expand(v[2][j][2], heap)>>])
      [] typeOf(v) = "array" ->
            Arr([j \in 1..Len(v[2]) |-> expand(v[2][j], heap)])
      [] OTHER -> v

\* a structure with every symbolic token replaced by the registry function
\* it names
RECURSIVE resolveTokens(_)
resolveTokens(v) ==
    CASE typeOf(v) = "string" ->
            IF startsWith(v[2], TokenPrefix) /\
               inRegistry(Fn(SubSeq(v[2], Len(TokenPrefix) + 1, Len(v[2]))))
            THEN Fn(SubSeq(v[2], Len(TokenPrefix) + 1, Len(v[2])))
            ELSE v
      [] typeOf(v) = "object" ->
            Obj([j \in 1..Len(v[2]) |->
                    <<v[2][j][1], resolveTokens(v[2][j][2])>>])
      [] typeOf(v) = "array" ->
            Arr([j \in 1..Len(v[2]) |-> resolveTokens(v[2][j])])
      [] OTHER -> v

\* the compacted structure serializeEffectsInBrowser serializes
compacted(prototype) == expand(preBuilt(prototype), prototype.heap)

\* C17: the text serializeEffectsInBrowser returns, read back with the
\* symbolic tokens resolved against the registry, is a value equal to the
\* compacted structure that was serialized (its tokens resolved likewise).
C17_RoundTrip ==
    \A p \in DOMAIN protos :
        protos[p].pc = "done" =>
            readBack(protos[p].output[1]) =
                resolveTokens(compacted(protos[p]))

\* the fields of the object v among keys whose value is false, empty or
\* undefined
defaults(v, keys) ==
    {k \in keys : typeOf(v) = "object" /\ hasOwn(v, k) /\ ~truthy(get(v, k))}

\* the default-valued fields an effect record still carries: structured and
\* wildcard of its trigger and of the arguments of its info, methodInfo and
\* dynamicFn of its info
defaultFields(prototype, r) ==
    LET effect == nowEffect(prototype, r)
        trigger == deref(prototype.heap, get(effect, Key.trigger))
        info == deref(prototype.heap, get(effect, Key.info))
        args == IF typeOf(info) = "object" /\ truthy(get(info, Key.args))
                THEN get(info, Key.args)[2] ELSE <<>>
    IN  defaults(trigger, {Key.structured, Key.wildcard}) \cup
        defaults(info, {Key.methodInfo, Key.dynamicFn}) \cup
        UNION {defaults(args[j], {Key.structured, Key.wildcard}) :
                  j \in 1..Len(args)}

\* C21: when serializeEffectsInBrowser has returned, no effect record of any
\* category of the prototype carries a structured, wildcard, dynamicFn or
\* methodInfo field whose value is false or empty.
C21_NoDefaultFieldsInAnyCategory ==
    \A p \in DOMAIN protos :
        protos[p].pc = "done" =>
            \A r \in Records(protos[p]) : defaultFields(protos[p], r) = {}

\* the effect types whose records stripUnnecessaryEffectData has processed
isStripped(prototype, r) ==
    \E j \in 1..Len(strippedTypes(prototype)) :
        strippedTypes(prototype)[j] = r[1]

\* the objects an effect record refers to: trigger first, then info
refsOf(effect) ==
    SelectSeq(<<get(effect, Key.trigger), get(effect, Key.info)>>, truthy)

\* the stripped copy a record's raw info must end as, whatever else was
\* processed before or after it
expectedInfo(prototype, r) ==
    LET s == stripInfo(jsonCopy(deref(RawHeap,
                                      get(rawEffect(prototype, r), Key.info))))
        cacheName == get(s, Key.cacheName)
        s1 == IF truthy(cacheName) /\ prototype.context # Undefined
                 /\ mapHas(prototype.context[1].map, cacheName[2])
              THEN set(s, Key.cacheName,
                       Str(mapGet(prototype.context[1].map, cacheName[2])[1]))
              ELSE s
    IN  IF truthy(get(s1, Key.part)) THEN delete(s1, Key.part) ELSE s1

expectedTrigger(prototype, r) ==
    stripTrigger(jsonCopy(deref(RawHeap,
                                get(rawEffect(prototype, r), Key.trigger))))

\* two distinct records of the raw input that share a trigger or info object
aliased(prototype, r1, r2) ==
    /\ r1 # r2
    /\ Range(refsOf(rawEffect(prototype, r1)))
          \cap Range(refsOf(rawEffect(prototype, r2))) # {}

\* C22: when effect records of the raw input share a trigger or info
\* object, compaction gives each processed record its own stripped copy:
\* the raw objects are never written, so a record not yet processed still
\* sees the raw fields; a processed record's copies hold exactly the
\* stripped fields of its raw objects, at every later step; the copies of
\* two records are distinct objects; and records whose raw info had the
\* same cache name hold the same token.
C22_SharedObjectsAreCopied ==
    \A p \in DOMAIN protos :
        LET prototype == protos[p]
        IN  /\ SubSeq(prototype.heap, 1, Len(RawHeap)) = RawHeap
            /\ \A r \in methodRecords(prototype) :
                  LET raw == rawEffect(prototype, r)
                      now == nowEffect(prototype, r)
                  IN  IF isStripped(prototype, r)
                      THEN /\ \A j \in 1..Len(refsOf(now)) :
                                  refsOf(now)[j][2] > Len(RawHeap)
                           /\ truthy(get(raw, Key.info)) =>
                                 deref(prototype.heap, get(now, Key.info))
                                     = expectedInfo(prototype, r)
                           /\ truthy(get(raw, Key.trigger)) =>
                                 deref(prototype.heap, get(now, Key.trigger))
                                     = expectedTrigger(prototype, r)
                      ELSE refsOf(now) = refsOf(raw)
            /\ \A r1, r2 \in methodRecords(prototype) :
                  /\ r1 # r2
                  /\ isStripped(prototype, r1)
                  /\ isStripped(prototype, r2)
                  => /\ Range(refsOf(nowEffect(prototype, r1)))
                           \cap Range(refsOf(nowEffect(prototype, r2))) = {}
                     /\ rawCacheName(prototype, r1)
                           = rawCacheName(prototype, r2)
                        => nowCacheName(prototype, r1)
                              = nowCacheName(prototype, r2)

\* two processed records that shared their raw info, with a cache name, now
\* hold distinct copies with the same token
C22_Witness ==
    \E p \in DOMAIN protos :
        \E r1, r2 \in methodRecords(protos[p]) :
            /\ aliased(protos[p], r1, r2)
            /\ get(rawEffect(protos[p], r1), Key.info)
                  = get(rawEffect(protos[p], r2), Key.info)
            /\ truthy(rawCacheName(protos[p], r1))
            /\ isStripped(protos[p], r1)
            /\ isStripped(protos[p], r2)
            /\ r1[1] # r2[1]
            /\ get(nowEffect(protos[p], r1), Key.info)
                  # get(nowEffect(protos[p], r2), Key.info)
            /\ nowCacheName(protos[p], r1) = nowCacheName(protos[p], r2)

\* the tokens an alias map has assigned
tokensOf(map) == {map[j][2] : j \in 1..Len(map)}

\* a cache context is well formed: distinct keys have distinct tokens, the
\* counter is the number of entries, and the tokens are the decimal strings
\* of 0 .. counter - 1
wellFormed(context) ==
    /\ \A j, k \in 1..Len(context.map) :
          context.map[j][2] = context.map[k][2] => j = k
    /\ context.index = Len(context.map)
    /\ tokensOf(context.map) = {toString(n) : n \in 0..(context.index - 1)}

C28_ContextIsWellFormed ==
    \A p \in DOMAIN protos :
        protos[p].context # Undefined => wellFormed(protos[p].context[1])

C28_CounterNeverDecreases ==
    \A p \in DOMAIN protos :
        protos[p].context # Undefined =>
            /\ protos'[p].context # Undefined
            /\ protos'[p].context[1].index >= protos[p].context[1].index

\* C28: in every state of a cache context the alias map is injective, the
\* counter equals the number of entries of the map, the assigned tokens are
\* exactly the decimal strings of 0 .. counter - 1, and no step decreases
\* the counter.
C28_ContextInvariant ==
    /\ []C28_ContextIsWellFormed
    /\ [][C28_CounterNeverDecreases]_vars

\* a context that has assigned two tokens to two cache names
C28_Witness ==
    \E p \in DOMAIN protos :
        /\ protos[p].context # Undefined
        /\ protos[p].context[1].index = 2
        /\ Len(protos[p].context[1].map) = 2
        /\ protos[p].context[1].map[1][1] # protos[p].context[1].map[2][1]

\* the bare-identifier pattern [A-Za-z_$][A-Za-z0-9_$]*
isIdentifier(k) ==
    /\ k # <<>>
    /\ k[1] \in (WordChars \ Range(DigitChars)) \cup {"$"}
    /\ \A j \in 1..Len(k) : k[j] \in WordChars \cup {"$"}

\* the number of backslashes of s that end right before position at
RECURSIVE backslashesBefore(_, _)
backslashesBefore(s, at) ==
    IF at > 1 /\ s[at - 1] = "\\" THEN 1 + backslashesBefore(s, at - 1) ELSE 0

\* the positions of the quotes of s that open or close a string literal
quotesOf(s) ==
    DOMAIN [f \in {g \in 1..Len(s) :
                      s[g] = "\"" /\ backslashesBefore(s, g) % 2 = 0} |-> TRUE]

\* the string literals of s, each as <<opening quote, closing quote>>
RECURSIVE literalsFrom(_, _)
literalsFrom(quotes, from) ==
    LET open == nextMatch(quotes, from)
        close == nextMatch(quotes, open + 1)
    IN  IF open = 0 \/ close = 0 THEN <<>>
        ELSE <<<<open, close>>>> \o literalsFrom(quotes, close + 1)

literalsOf(s) == literalsFrom(quotesOf(s), 1)

isKeyLiteral(s, l) == l[2] < Len(s) /\ s[l[2] + 1] = ":"

\* the keys of s that are quoted
quotedKeys(s) ==
    LET keys == SelectSeq(literalsOf(s), LAMBDA l : isKeyLiteral(s, l))
    IN  {SubSeq(s, keys[j][1] + 1, keys[j][2] - 1) : j \in 1..Len(keys)}

\* the string values of s with their quotes, in order
stringValues(s) ==
    LET vals == SelectSeq(literalsOf(s), LAMBDA l : ~isKeyLiteral(s, l))
    IN  [j \in 1..Len(vals) |-> SubSeq(s, vals[j][1], vals[j][2])]

\* the keys of s that are not quoted: a run of word characters outside the
\* string literals, after "{" or "," and before ":"
bareKeys(s) ==
    LET lits == Range(literalsOf(s))
        starts == {g \in 2..Len(s) :
                      /\ s[g - 1] \in {"{", ","}
                      /\ wordRun(s, g) > 0
                      /\ g + wordRun(s, g) <= Len(s)
                      /\ s[g + wordRun(s, g)] = ":"
                      /\ \A l \in lits : ~(l[1] < g /\ g < l[2])}
    IN  {SubSeq(s, g, g + wordRun(s, g) - 1) : g \in starts}

C26_BareKeysAreIdentifiers ==
    \A p \in DOMAIN protos :
        protos[p].pc = "done" =>
            \A k \in bareKeys(stripSerializedMetadata(preBuilt(protos[p]),
                                                      protos[p].heap)) :
                isIdentifier(k)

C26_QuotedKeysAreNoIdentifiers ==
    \A p \in DOMAIN protos :
        protos[p].pc = "done" =>
            \A k \in quotedKeys(stripSerializedMetadata(preBuilt(protos[p]),
                                                        protos[p].heap)) :
                ~isIdentifier(k)

C26_StringValuesAreKept ==
    \A p \in DOMAIN protos :
        protos[p].pc = "done" =>
            stringValues(stripSerializedMetadata(preBuilt(protos[p]),
                                                 protos[p].heap))
                = stringValues(stringify(preBuilt(protos[p]), protos[p].heap))

\* C26: in the text stripSerializedMetadata returns, a key is unquoted
\* exactly when it matches the bare-identifier pattern
\* [A-Za-z_$][A-Za-z0-9_$]* (so a key starting with a digit is still
\* quoted), and the string values are those of the JSON text.
C26_KeysUnquotedExactlyWhenIdentifiers ==
    /\ C26_BareKeysAreIdentifiers
    /\ C26_QuotedKeysAreNoIdentifiers
    /\ C26_StringValuesAreKept

\* ========================================================================
\* Two prototypes compacted in one page (specification PairSpec): the calls
\* of serializeEffectsInBrowser for the two interleave in any order. The
\* second prototype is unrelated to the first or inherits from it, as the
\* prototype of an element class that extends another element class does.
\* ========================================================================
PairComputeTables ==
    {UndefinedValue,
     Obj(<<<<<<"a">>, Arr(<<effectRecord(registered(6), Ref(3), Ref(1))>>)>>>>),
     Obj(<<<<<<"b">>, Arr(<<effectRecord(registered(6), Ref(4), Ref(2))>>)>>>>)}

PairArgCaches ==
    {UndefinedValue,
     Obj(<<<<longA, Arr(<<argA>>)>>, <<longB, Arr(<<argAB>>)>>>>)}

PairPrototypes ==
    {newPrototype(rawProps(c, o, UndefinedValue, a)) :
        c \in PairComputeTables, o \in ObserveTables, a \in PairArgCaches}

\* every table the parent has is shadowed by a table of the heir, so that
\* the only inherited property the compaction reads is the context
shadowsAll(heir, parent) ==
    \A j \in 1..Len(parent.raw[2]) : hasOwn(heir.raw, parent.raw[2][j][1])

PairInit ==
    /\ protos \in
          {<<first, [second EXCEPT !.parent = q]>> :
              first \in PairPrototypes, second \in PairPrototypes,
              q \in {0, 1}}
    /\ protos[2].parent = 1 => shadowsAll(protos[2], protos[1])
    /\ text = <<>>
    /\ templateInfo = Undefined
    /\ parts = <<>>
    /\ bindingData = EmptyObject
    /\ escaped = FALSE
    /\ quote = Undefined
    /\ state = "INITIAL"
    /\ i = 0
    /\ warnings = <<>>
    /\ pc = "idle"
    /\ transform = NoTransform
    /\ observer = NoObserver

PairSpec == PairInit /\ [][EffectsNext]_vars

\* the steps of serializeEffectsInBrowser in order
PcOrder == <<"closures", "compute", "observe", "patch", "serialize", "done">>

pcRank(label) ==
    IF label = "threw" THEN 4
    ELSE CHOOSE j \in 1..Len(PcOrder) : PcOrder[j] = label

\* a prototype compacted alone, as far as the step label
alone(props, label) ==
    LET p1 == newPrototype(props)
        p2 == collectEffects(p1, Append(PROPERTY_EFFECT_TYPES,
                                        Key.observerArgCache))
        p3 == IF truthy(get(p2.props, Key.computeEffects))
              THEN stripUnnecessaryEffectData(p2, Key.computeEffects)
              ELSE p2
        p4 == IF truthy(get(p3.props, Key.observeEffects))
              THEN stripUnnecessaryEffectData(p3, Key.observeEffects)
              ELSE p3
        cache == get(p4.props, Key.observerArgCache)
        p5 == IF truthy(cache) /\ p4.context # Undefined
              THEN [p4 EXCEPT !.props =
                       set(@, Key.observerArgCache,
                           patchUpObserverArgCache(cache, p4.context[1].map))]
              ELSE p4
        p6 == [p5 EXCEPT !.output = Some(serialized(p5))]
    IN  CASE pcRank(label) = 1 -> p1
          [] pcRank(label) = 2 -> p2
          [] pcRank(label) = 3 -> p3
          [] pcRank(label) = 4 -> p4
          [] pcRank(label) = 5 -> p5
          [] OTHER -> p6

\* prototype p is where compacting it alone would have brought it
asAlone(p) ==
    LET solo == alone(protos[p].raw, protos[p].pc)
    IN  /\ pcRank(protos[p].pc) >= 3 => seen(p).context = solo.context
        /\ protos[p].props = solo.props
        /\ protos[p].heap = solo.heap
        /\ protos[p].output = solo.output
        /\ protos[p].pc \in {"threw", "serialize", "done"} =>
              (protos[p].pc = "threw") =
                  (/\ truthy(get(solo.props, Key.observerArgCache))
                   /\ solo.context = Undefined)

\* a step for one prototype leaves the context of the others as it is
C27_OthersContextUnchanged ==
    \A p, q \in DOMAIN protos :
        p # q /\ protos'[p].pc # protos[p].pc =>
            protos'[q].context = protos[q].context

\* C27: for any interleaving of the compaction steps of two prototypes,
\* each prototype's alias map, counter, tables and output are those of
\* compacting it alone, and a step for one prototype never changes the
\* context of the other.
C27_PrototypesAreIndependent ==
    /\ [](\A p \in DOMAIN protos : asAlone(p))
    /\ [][C27_OthersContextUnchanged]_vars

\* the same for two prototypes neither of which inherits from the other
C27_UnrelatedPrototypesAreIndependent ==
    /\ []((\A p \in DOMAIN protos : protos[p].parent = 0) =>
              \A p \in DOMAIN protos : asAlone(p))
    /\ [][(\A p \in DOMAIN protos : protos[p].parent = 0) =>
              C27_OthersContextUnchanged]_vars

\* ========================================================================
\* Part 3: serializeBindingsInBrowser (bindings.ts), the compaction of the
\* template metadata of a prototype. The templateInfo and nodeInfo objects
\* live in the heap of the prototype; a nodeInfoList is an array of
\* references, a nested templateInfo a reference held by its nodeInfo. The
\* bindings of a nodeInfo and the effect records of a propertyEffects table
\* are held inline. A document fragment is <<"fragment", markup>>, markup
\* being what innerHTML gives for a div holding a clone of the fragment.
\* ========================================================================
Fragment(markup) == <<"fragment", markup>>

\* property names of the template metadata
TKey ==
    [nodeInfoList |-> <<"n", "o", "d", "e", "I", "n", "f", "o", "L", "i", "s", "t">>,
     templateInfo |-> <<"t", "e", "m", "p", "l", "a", "t", "e", "I", "n", "f", "o">>,
     propertyEffects |-> <<"p", "r", "o", "p", "e", "r", "t", "y", "E", "f", "f", "e", "c",
      "t", "s">>,
     content |-> <<"c", "o", "n", "t", "e", "n", "t">>,
     dynamicFns |-> <<"d", "y", "n", "a", "m", "i", "c", "F", "n", "s">>,
     stripWhiteSpace |-> <<"s", "t", "r", "i", "p", "W", "h", "i", "t", "e", "S", "p", "a",
      "c", "e">>,
     bindings |-> <<"b", "i", "n", "d", "i", "n", "g", "s">>,
     parts |-> <<"p", "a", "r", "t", "s">>,
     event |-> <<"e", "v", "e", "n", "t">>,
     signature |-> <<"s", "i", "g", "n", "a", "t", "u", "r", "e">>,
     dependencies |-> <<"d", "e", "p", "e", "n", "d", "e", "n", "c", "i", "e", "s">>,
     mode |-> <<"m", "o", "d", "e">>,
     source |-> <<"s", "o", "u", "r", "c", "e">>,
     target |-> <<"t", "a", "r", "g", "e", "t">>,
     customEvent |-> <<"c", "u", "s", "t", "o", "m", "E", "v", "e", "n", "t">>,
     negate |-> <<"n", "e", "g", "a", "t", "e">>,
     compoundIndex |-> <<"c", "o", "m", "p", "o", "u", "n", "d", "I", "n", "d", "e", "x">>,
     listenerNegate |-> <<"l", "i", "s", "t", "e", "n", "e", "r", "N", "e", "g", "a", "t", "e">>,
     listenerEvent |-> <<"l", "i", "s", "t", "e", "n", "e", "r", "E", "v", "e", "n", "t">>,
     isCompound |-> <<"i", "s", "C", "o", "m", "p", "o", "u", "n", "d">>,
     literal |-> <<"l", "i", "t", "e", "r", "a", "l">>,
     kind |-> <<"k", "i", "n", "d">>,
     index |-> <<"i", "n", "d", "e", "x">>]

\* lines 36-38 and 54-55: Object.values(templateInfo.propertyEffects) stands
\* for the arrays of the table of the templateInfo at heap position ti; the
\* local propertyEffects is the sequence of the positions collected
hasPropertyEffects(heap, ti) == truthy(get(heap[ti], TKey.propertyEffects))

\* lines 42-43 and 71-73
stripTemplateInfo(info) ==
    deleteIfFalsy(delete(info, TKey.dynamicFns), TKey.stripWhiteSpace)

\* lines 81-84: arguments that are strings have no such properties
stripDependency(arg) ==
    IF typeOf(arg) = "object"
    THEN deleteIfFalsy(deleteIfFalsy(arg, Key.structured), Key.wildcard)
    ELSE arg

\* lines 79-90: the signature of a part
stripSignature(part) ==
    LET signature == get(part, TKey.signature)
        dependencies == get(part, TKey.dependencies)
    IN  IF truthy(signature)
        THEN IF truthy(get(signature, Key.args))
             THEN set(set(part, TKey.dependencies,
                          Arr([j \in 1..Len(dependencies[2]) |->
                                  stripDependency(dependencies[2][j])])),
                      TKey.signature,
                      delete(delete(signature, Key.args), Key.cacheName))
             ELSE part
        ELSE delete(part, TKey.signature)

\* lines 78-101 for one part; the mode of the part moves to the binding
stripPart(part, binding) ==
    LET p1 == stripSignature(deleteIfFalsy(part, TKey.event))
        mode == get(p1, TKey.mode)
        p2 == IF truthy(mode) THEN delete(p1, TKey.mode) ELSE p1
        p3 == IF get(p2, TKey.source) = get(binding, TKey.target)
              THEN delete(p2, TKey.source) ELSE p2
        p4 == deleteIfFalsy(deleteIfFalsy(p3, TKey.customEvent), TKey.negate)
        p5 == IF get(p4, TKey.compoundIndex) = Num(0)
              THEN delete(p4, TKey.compoundIndex) ELSE p4
    IN  [part |-> IF truthy(get(p5, TKey.signature))
                  THEN delete(p5, TKey.source) ELSE p5,
         binding |-> IF truthy(mode) THEN set(binding, TKey.mode, mode)
                     ELSE binding]

\* lines 77-101: the parts of a binding from position j on
RECURSIVE stripParts(_, _)
stripParts(binding, j) ==
    LET parts0 == get(binding, TKey.parts)[2]
        r == stripPart(parts0[j], binding)
    IN  IF j > Len(parts0) THEN binding
        ELSE stripParts(set(r.binding, TKey.parts,
                            Arr([parts0 EXCEPT ![j] = r.part])), j + 1)

\* lines 77-108 for one binding
stripBinding(binding) ==
    LET b1 == stripParts(binding, 1)
    IN  deleteIfFalsy(deleteIfFalsy(deleteIfFalsy(deleteIfFalsy(
            deleteIfFalsy(b1, TKey.listenerNegate), TKey.listenerEvent),
            TKey.isCompound), TKey.literal), TKey.kind)

\* lines 75-110
stripBindings(nodeInfo) ==
    LET bindings0 == get(nodeInfo, TKey.bindings)
    IN  IF truthy(bindings0)
        THEN set(nodeInfo, TKey.bindings,
                 Arr([j \in 1..Len(bindings0[2]) |->
                         stripBinding(bindings0[2][j])]))
        ELSE nodeInfo

\* line 68: `Polymer.stringToFrag('${div.innerHTML}')REGEX_MARKER`
FragPrefix == <<"P", "o", "l", "y", "m", "e", "r", ".", "s", "t", "r", "i", "n",
      "g", "T", "o", "F", "r", "a", "g">>

RegexMarker == <<"R", "E", "G", "E", "X", "_", "M", "A", "R", "K", "E", "R">>

fragmentCall(markup) ==
    FragPrefix \o <<"(", "'">> \o markup \o <<"'", ")">> \o RegexMarker

\* the text of s from position from on starts with word
hasAt(s, from, word) ==
    /\ from + Len(word) - 1 <= Len(s)
    /\ SubSeq(s, from, from + Len(word) - 1) = word

\* where the group (.+?) of /content:"Polymer.stringToFrag(.+?)REGEX_MARKER"/
\* starts when the pattern is tried at from: behind the opening of the
\* pattern, whose dot matches any character but a line break; 0 when the
\* opening does not match
groupStart(s, from) ==
    LET opening == <<"c", "o", "n", "t", "e", "n", "t", ":", "\"", "P", "o", "l", "y",
      "m", "e", "r">>
        rest == <<"s", "t", "r", "i", "n", "g", "T", "o", "F", "r", "a", "g">>
        dot == from + Len(opening)
    IN  IF /\ hasAt(s, from, opening)
           /\ dot <= Len(s)
           /\ s[dot] # "\n"
           /\ hasAt(s, dot + 1, rest)
        THEN dot + 1 + Len(rest)
        ELSE 0

\* where REGEX_MARKER" follows the shortest non-empty group that starts at
\* start; 0 when there is none before a line break
groupEnd(s, start) ==
    LET ends == {g \in (start + 1)..Len(s) :
                    /\ hasAt(s, g, RegexMarker \o <<"\"">>)
                    /\ \A h \in start..(g - 1) : s[h] # "\n"}
    IN  IF ends = {} THEN 0
        ELSE CHOOSE g \in ends : \A h \in ends : g <= h

\* the positions the content pattern matches at, as an enumerated set
contentMatchesOf(s) ==
    DOMAIN [f \in {g \in 1..Len(s) :
                      groupStart(s, g) # 0 /\ groupEnd(s, groupStart(s, g)) # 0}
              |-> TRUE]

\* lines 117-119: s.replace(/content:"Polymer.stringToFrag(.+?)REGEX_MARKER"/g,
\* 'content:Polymer.stringToFrag$1') from position from on
RECURSIVE replaceContents(_, _, _)
replaceContents(s, found, from) ==
    LET f == nextMatch(found, from)
        start == groupStart(s, f)
        end == groupEnd(s, start)
    IN  IF f = 0 THEN SubSeq(s, from, Len(s))
        ELSE SubSeq(s, from, f - 1) \o <<"c", "o", "n", "t", "e", "n", "t", ":">> \o FragPrefix \o
             SubSeq(s, start, end - 1) \o
             replaceContents(s, found, end + Len(RegexMarker) + 1)

unquoteContents(s) == replaceContents(s, contentMatchesOf(s), 1)

\* ------------------------------------------------------------------------
\* serializeBindingsInBrowser, one action per statement group. Beside the
\* fields of the compaction of effects a prototype has
\*   template         the heap position of prototype._template._templateInfo,
\*   nodeInfos, i     the worklist and its index,
\*   propertyEffects  the heap positions of the templateInfos whose tables
\*                    were collected, in the order of collection.
\* ------------------------------------------------------------------------
\* lines 36-45
BindStart(p) ==
    /\ At2(p, "bindings")
    /\ LET prototype == protos[p]
           root == prototype.heap[prototype.template]
       IN  protos' = [protos EXCEPT ![p] =
              [@ EXCEPT
                  !.propertyEffects =
                      IF hasPropertyEffects(prototype.heap, prototype.template)
                      THEN <<prototype.template>> ELSE <<>>,
                  !.nodeInfos = get(root, TKey.nodeInfoList)[2],
                  !.heap = [@ EXCEPT ![prototype.template] =
                               stripTemplateInfo(root)],
                  !.i = 0,
                  !.pc = "loop"]]
    /\ UNCHANGED <<parserVars, transform, observer>>

visitNested_NoAppend(prototype, ti) ==
    LET nested == prototype.heap[ti]
        markup == get(nested, TKey.content)[2]
    IN  [prototype EXCEPT
            !.propertyEffects = IF hasPropertyEffects(prototype.heap, ti)
                                THEN Append(@, ti) ELSE @,
            !.heap = [@ EXCEPT ![ti] =
                         stripTemplateInfo(
                             set(nested, TKey.content,
                                 Str(fragmentCall(markup))))]]

\* lines 49-74: the nested template of a nodeInfo
visitNested(prototype, ti) ==
    LET nested == prototype.heap[ti]
        markup == get(nested, TKey.content)[2]
    IN  [prototype EXCEPT
            !.propertyEffects = IF hasPropertyEffects(prototype.heap, ti)
                                THEN Append(@, ti) ELSE @,
            !.nodeInfos = @ \o get(nested, TKey.nodeInfoList)[2],
            !.heap = [@ EXCEPT ![ti] =
                         stripTemplateInfo(
                             set(nested, TKey.content,
                                 Str(fragmentCall(markup))))]]

\* lines 46-111: one iteration of the loop
VisitNodeInfo(p) ==
    /\ At2(p, "loop")
    /\ protos[p].i < Len(protos[p].nodeInfos)
    /\ LET prototype == protos[p]
           n == prototype.nodeInfos[prototype.i + 1][2]
           nested == get(prototype.heap[n], TKey.templateInfo)
           p1 == IF truthy(nested) THEN visitNested(prototype, nested[2])
                 ELSE prototype
       IN  protos' = [protos EXCEPT ![p] =
              [p1 EXCEPT
                  !.heap = [@ EXCEPT ![n] = stripBindings(@)],
                  !.i = prototype.i + 1]]
    /\ UNCHANGED <<parserVars, transform, observer>>

\* line 113, for the tables collected from position j on
RECURSIVE closuresOfTables(_, _, _)
closuresOfTables(heap, tables, j) ==
    IF j > Len(tables) THEN heap
    ELSE LET table == get(heap[tables[j]], TKey.propertyEffects)
         IN  closuresOfTables(
                 [heap EXCEPT ![tables[j]] =
                     set(@, TKey.propertyEffects,
                         withValues(table,
                             serializeRunTimeClosures(values(table))))],
                 tables, j + 1)

\* line 113, reached when the loop ends
BindClosures(p) ==
    /\ At2(p, "loop")
    /\ protos[p].i >= Len(protos[p].nodeInfos)
    /\ protos' = [protos EXCEPT ![p] =
          [@ EXCEPT
              !.heap = closuresOfTables(@, protos[p].propertyEffects, 1),
              !.pc = "strip"]]
    /\ UNCHANGED <<parserVars, transform, observer>>

\* line 114 for the tables collected from position j on: the effects of a
\* table are stripped as those of a table of the prototype are
RECURSIVE stripTables(_, _, _)
stripTables(prototype, tables, j) ==
    IF j > Len(tables) THEN prototype
    ELSE LET table == get(prototype.heap[tables[j]], TKey.propertyEffects)
             view == [prototype EXCEPT
                         !.props = Obj(<<<<TKey.propertyEffects, table>>>>)]
             done == stripUnnecessaryEffectData(view, TKey.propertyEffects)
         IN  stripTables(
                 [done EXCEPT
                     !.props = prototype.props,
                     !.heap = [@ EXCEPT ![tables[j]] =
                                  set(@, TKey.propertyEffects,
                                      get(done.props, TKey.propertyEffects))]],
                 tables, j + 1)

\* line 114
BindStrip(p) ==
    /\ At2(p, "strip")
    /\ protos' = writeBack(p,
          [stripTables([seen(p) EXCEPT
                           !.context = IF @ = Undefined
                                       THEN Some(NewContext) ELSE @],
                       protos[p].propertyEffects, 1)
              EXCEPT !.pc = "stringify"])
    /\ UNCHANGED <<parserVars, transform, observer>>

\* lines 116-119
BindSerialize(p) ==
    /\ At2(p, "stringify")
    /\ protos' = [protos EXCEPT ![p] =
          [@ EXCEPT
              !.output = Some(unquoteContents(
                  stripSerializedMetadata(Ref(protos[p].template),
                                          protos[p].heap))),
              !.pc = "returned"]]
    /\ UNCHANGED <<parserVars, transform, observer>>

\* ------------------------------------------------------------------------
\* Inputs of serializeBindingsInBrowser: prototypes whose template was bound
\* ------------------------------------------------------------------------
\* the info of a binding effect
bindingInfo == Obj(<<<<TKey.index, Num(0)>>, <<Key.part, Obj(<<>>)>>>>)

\* a propertyEffects table: one binding effect run for property a
bindingEffects ==
    Obj(<<<<<<"a">>, Arr(<<effectRecord(registered(1), Ref(2), Ref(1))>>)>>>>)

\* the character U+0060 (a string of the module cannot hold it)
Backtick == "U+0060"

\* what innerHTML gives for the content of a nested template: plain text,
\* and text with a double quote, a single quote, a backtick
Markups == {<<"x">>, <<"a", "\"", "b">>, <<"i", "t", "'", "s">>, <<"a", Backtick, "b">>}

\* a property binding [[a]] and a method binding {{m(a)}} of a node
BindingForms ==
    {Arr(<<Obj(<<<<TKey.kind, Str(<<"p", "r", "o", "p", "e", "r", "t", "y">>)>>,
                 <<TKey.target, Str(<<"a">>)>>,
                 <<TKey.parts,
                   Arr(<<Obj(<<<<TKey.mode, Str(<<"[">>)>>,
                               <<TKey.negate, Bool(FALSE)>>,
                               <<TKey.source, Str(<<"a">>)>>,
                               <<TKey.dependencies, Arr(<<Str(<<"a">>)>>)>>,
                               <<TKey.customEvent, Bool(FALSE)>>,
                               <<TKey.event, UndefinedValue>>,
                               <<TKey.signature, UndefinedValue>>,
                               <<TKey.compoundIndex, Num(0)>>>>)>>)>>,
                 <<TKey.isCompound, Bool(FALSE)>>,
                 <<TKey.literal, UndefinedValue>>>>)>>),
     Arr(<<Obj(<<<<TKey.kind, Str(<<"t", "e", "x", "t">>)>>,
                 <<TKey.target, Str(<<"t", "e", "x", "t", "C", "o", "n", "t", "e", "n", "t">>)>>,
                 <<TKey.parts,
                   Arr(<<Obj(<<<<TKey.mode, Str(<<"{">>)>>,
                               <<TKey.negate, Bool(TRUE)>>,
                               <<TKey.source, Str(<<"m", "(", "a", ")">>)>>,
                               <<TKey.dependencies, Arr(<<argA>>)>>,
                               <<TKey.customEvent, Bool(FALSE)>>,
                               <<TKey.event, Str(<<"b", "-", "c", "h", "a", "n", "g", "e", "d">>)>>,
                               <<TKey.signature,
                                 Obj(<<<<Key.methodName, Str(<<"m">>)>>,
                                       <<Key.args, Arr(<<argA>>)>>,
                                       <<Key.cacheName, Str(longA)>>>>)>>,
                               <<TKey.compoundIndex, Num(1)>>>>)>>)>>,
                 <<TKey.isCompound, Bool(TRUE)>>,
                 <<TKey.listenerEvent, Str(<<"b", "-", "c", "h", "a", "n", "g", "e", "d">>)>>,
                 <<TKey.listenerNegate, Bool(FALSE)>>>>)>>)}

\* a nodeInfo: nested is the reference to its templateInfo, or undefined
nodeInfoOf(nested, bindings0) ==
    Obj(SelectSeq(<<<<TKey.templateInfo, nested>>,
                    <<TKey.bindings, bindings0>>>>,
                  LAMBDA e : e[2] # UndefinedValue))

\* a templateInfo: list holds the heap positions of its nodeInfos
templateInfoOf(list, content0, effects, strip) ==
    Obj(SelectSeq(<<<<TKey.nodeInfoList,
                      Arr([j \in 1..Len(list) |-> Ref(list[j])])>>,
                    <<TKey.content, content0>>,
                    <<TKey.stripWhiteSpace, Bool(strip)>>,
                    <<TKey.dynamicFns, Obj(<<<<DynName, Bool(TRUE)>>>>)>>,
                    <<TKey.propertyEffects, effects>>>>,
                  LAMBDA e : e[2] # UndefinedValue))

\* Heaps of templates, the root templateInfo at position 3: a template
\* without nested templates, one nested template, templates nested three
\* deep beside a plain node, and two nested templates side by side, one of
\* them with two nodes and a template below
TemplateHeaps ==
    LET base == <<argA, bindingInfo>>
        shapes(m, e0, e1, b, s) ==
            {base \o <<templateInfoOf(<<4, 5>>, UndefinedValue, e0, s),
                       nodeInfoOf(UndefinedValue, b),
                       nodeInfoOf(UndefinedValue, UndefinedValue)>>,
             base \o <<templateInfoOf(<<4>>, UndefinedValue, e0, s),
                       nodeInfoOf(Ref(5), UndefinedValue),
                       templateInfoOf(<<6>>, Fragment(m), e1, s),
                       nodeInfoOf(UndefinedValue, b)>>,
             base \o <<templateInfoOf(<<4, 9>>, UndefinedValue, e0, s),
                       nodeInfoOf(Ref(5), b),
                       templateInfoOf(<<6>>, Fragment(m), e1, s),
                       nodeInfoOf(Ref(7), UndefinedValue),
                       templateInfoOf(<<8>>, Fragment(<<"x">>), e0, ~s),
                       nodeInfoOf(UndefinedValue, b),
                       nodeInfoOf(UndefinedValue, UndefinedValue)>>,
             base \o <<templateInfoOf(<<4, 5>>, UndefinedValue, e0, s),
                       nodeInfoOf(Ref(6), UndefinedValue),
                       nodeInfoOf(Ref(7), b),
                       templateInfoOf(<<8, 9>>, Fragment(m), e1, s),
                       templateInfoOf(<<>>, Fragment(m), e0, s),
                       nodeInfoOf(UndefinedValue, b),
                       nodeInfoOf(Ref(10), UndefinedValue),
                       templateInfoOf(<<11>>, Fragment(<<"x">>), e1, s),
                       nodeInfoOf(UndefinedValue, UndefinedValue)>>}
    IN  UNION {shapes(m, e0, e1, b, s) :
                  m \in Markups,
                  e0 \in {UndefinedValue, bindingEffects},
                  e1 \in {UndefinedValue, bindingEffects},
                  b \in BindingForms \cup {UndefinedValue},
                  s \in BOOLEAN}

\* prototype._template._templateInfo is the object at position 3
templatePrototype(heap) ==
    [props |-> Obj(<<>>), context |-> Undefined, heap |-> heap,
     pc |-> "bindings", output |-> Undefined, raw |-> heap, parent |-> 0,
     template |-> 3, nodeInfos |-> <<>>, i |-> 0, propertyEffects |-> <<>>]

BindingsInit ==
    /\ protos \in {<<templatePrototype(heap)>> : heap \in TemplateHeaps}
    /\ text = <<>>
    /\ templateInfo = Undefined
    /\ parts = <<>>
    /\ bindingData = EmptyObject
    /\ escaped = FALSE
    /\ quote = Undefined
    /\ state = "INITIAL"
    /\ i = 0
    /\ warnings = <<>>
    /\ pc = "idle"
    /\ transform = NoTransform
    /\ observer = NoObserver

BindingsNext ==
    \E p \in DOMAIN protos :
        \/ BindStart(p)
        \/ VisitNodeInfo(p)
        \/ BindClosures(p)
        \/ BindStrip(p)
        \/ BindSerialize(p)

BindingsSpec == BindingsInit /\ [][BindingsNext]_vars

\* ========================================================================
\* Properties of serializeBindingsInBrowser (specification BindingsSpec)
\* ========================================================================
\* the heap position of the templateInfo nested in the nodeInfo at n of the
\* template as handed in, 0 when there is none
nestedOf(prototype, n) ==
    LET nested == get(prototype.raw[n], TKey.templateInfo)
    IN  IF truthy(nested) THEN nested[2] ELSE 0

\* the nodeInfoList of the templateInfo at ti as handed in
listOf(prototype, ti) ==
    IF ti = 0 THEN <<>> ELSE get(prototype.raw[ti], TKey.nodeInfoList)[2]

\* the heap positions of the nodeInfos of the templateInfo at ti and of
\* every templateInfo nested below it
RECURSIVE nodesBelow(_, _)
nodesBelow(prototype, ti) ==
    LET own == {listOf(prototype, ti)[j][2] :
                   j \in 1..Len(listOf(prototype, ti))}
    IN  own \cup
        UNION {IF nestedOf(prototype, n) = 0 THEN {}
               ELSE nodesBelow(prototype, nestedOf(prototype, n)) : n \in own}

\* the nodeInfos the loop has visited
visited(prototype) == SubSeq(prototype.nodeInfos, 1, prototype.i)

C23_EachNodeOnce ==
    \A p \in DOMAIN protos :
        LET prototype == protos[p]
        IN  prototype.pc # "bindings" =>
               /\ prototype.i <= Len(prototype.nodeInfos)
               /\ \A j, k \in 1..Len(prototype.nodeInfos) :
                     prototype.nodeInfos[j] = prototype.nodeInfos[k] => j = k
               /\ \A j \in 1..Len(prototype.nodeInfos) :
                     prototype.nodeInfos[j][2]
                         \in nodesBelow(prototype, prototype.template)
               /\ prototype.pc # "loop" =>
                     /\ prototype.i = Len(prototype.nodeInfos)
                     /\ {visited(prototype)[j][2] : j \in 1..prototype.i}
                           = nodesBelow(prototype, prototype.template)

\* a step of the loop visits the next nodeInfo of the worklist and appends
\* the list nested in it to the end; the loop is left only when no
\* nodeInfo is left
C23_AppendsAtEnd ==
    \A p \in DOMAIN protos :
        protos[p].pc = "loop" /\ protos'[p] # protos[p] =>
            IF protos'[p].pc = "loop"
            THEN /\ protos'[p].i = protos[p].i + 1
                 /\ protos'[p].nodeInfos =
                       protos[p].nodeInfos \o
                       listOf(protos[p],
                              nestedOf(protos[p],
                                  protos[p].nodeInfos[protos[p].i + 1][2]))
            ELSE /\ protos[p].i = Len(protos[p].nodeInfos)
                 /\ protos'[p].nodeInfos = protos[p].nodeInfos
                 /\ protos'[p].i = protos[p].i

\* C23: the worklist loop of serializeBindingsInBrowser visits every
\* nodeInfo of the root template and of every nested templateInfo exactly
\* once, at any nesting depth: each step takes the next nodeInfo and
\* appends the list nested in it to the end of the worklist, and the loop
\* stops when the worklist is exhausted.
C23_WorklistVisitsAllOnce ==
    /\ []C23_EachNodeOnce
    /\ [][C23_AppendsAtEnd]_vars

\* the loop has ended after visiting a nodeInfo two templates deep
C23_Witness ==
    \E p \in DOMAIN protos :
        /\ protos[p].pc = "strip"
        /\ \E n0, n1, n2 \in nodesBelow(protos[p], protos[p].template) :
              /\ Ref(n1) \in Range(listOf(protos[p], nestedOf(protos[p], n0)))
              /\ Ref(n2) \in Range(listOf(protos[p], nestedOf(protos[p], n1)))
              /\ Ref(n2) \in Range(visited(protos[p]))

\* the positions of s where a string literal starts with the text
\* Polymer.EFFECT_FUNCTIONS.
quotedReferences(s) ==
    {f \in 1..Len(s) : hasAt(s, f, <<"\"">> \o TokenPrefix)}

\* C24: in the text returned by serializeEffectsInBrowser and by
\* serializeBindingsInBrowser no effect function reference
\* Polymer.EFFECT_FUNCTIONS.<name> stands in a string literal.
C24_ReferencesAreBare ==
    \A p \in DOMAIN protos :
        protos[p].output # Undefined =>
            quotedReferences(protos[p].output[1]) = {}

\* the characters of a single-quoted string literal of the language from
\* position at (behind the opening quote) to its closing quote, and the
\* position behind that quote; a backslash gives the character after it
RECURSIVE readSingleQuoted(_, _, _)
readSingleQuoted(s, at, acc) ==
    IF at > Len(s) THEN <<acc, 0>>
    ELSE IF s[at] = "'" THEN <<acc, at + 1>>
    ELSE IF s[at] = "\\" /\ at < Len(s)
         THEN readSingleQuoted(s, at + 2, Append(acc, s[at + 1]))
         ELSE readSingleQuoted(s, at + 1, Append(acc, s[at]))

\* the markups of the nested templates a prototype was handed in with
nestedMarkups(prototype) ==
    {get(prototype.raw[nestedOf(prototype, n)], TKey.content)[2] :
        n \in {m \in nodesBelow(prototype, prototype.template) :
                  nestedOf(prototype, m) # 0}}

\* the positions of s behind the text content:Polymer.stringToFrag('
fragmentCalls(s) ==
    LET opening == <<"c", "o", "n", "t", "e", "n", "t", ":", "P", "o", "l", "y", "m",
      "e", "r", ".", "s", "t", "r", "i", "n", "g", "T", "o", "F", "r",
      "a", "g", "(", "'">>
    IN  {f + Len(opening) : f \in {g \in 1..Len(s) : hasAt(s, g, opening)}}

\* the start of a content that is left as a string
QuotedContent == <<"c", "o", "n", "t", "e", "n", "t", ":", "\"", "P", "o", "l", "y",
      "m", "e", "r", ".", "s", "t", "r", "i", "n", "g", "T", "o", "F",
      "r", "a", "g">>

\* C25: in the text serializeBindingsInBrowser returns, the content of
\* every nested template is an unquoted call Polymer.stringToFrag('...'):
\* no content is left as a quoted string, and the single-quoted literal of
\* every call ends only at its final quote, right before the closing
\* parenthesis, and denotes the markup of a nested template; every markup
\* is denoted by some call.
C25_FragmentLiteralsDenoteMarkup ==
    \A p \in DOMAIN protos :
        protos[p].pc = "returned" =>
            LET out == protos[p].output[1]
                read(f) == readSingleQuoted(out, f, <<>>)
            IN  /\ \A f \in 1..Len(out) : ~hasAt(out, f, QuotedContent)
                /\ \A f \in fragmentCalls(out) :
                      /\ read(f)[2] # 0
                      /\ hasAt(out, read(f)[2], <<")">>)
                      /\ read(f)[1] \in nestedMarkups(protos[p])
                /\ nestedMarkups(protos[p]) \subseteq
                      {read(f)[1] : f \in fragmentCalls(out)}

\* ========================================================================
\* Part 4: PreBuildBindings._transformIter (pre-build-bindings.ts), the
\* transform of a file stream. A project is what the stream and the analyzer
\* give: the urls of the files in the order they arrive, the entrypoint,
\* the html imports of every document, and the Polymer elements every
\* document defines. The fields of the run:
\*   project        the project (never written),
\*   input          the files still to arrive,
\*   files          the keys of this.files in insertion order,
\*   set            the documents of the traversal in insertion order,
\*   cursor         the number of iterations of the running loop so far,
\*   yielded        the files yielded so far,
\*   pc             the next statement.
\* ========================================================================
Urls == {"index.html", "my-app.html", "my-element.html", "manifest.json"}

isHtml(url) == url # "manifest.json"

\* the property definitions of an element definition: the configuration
\* keys of the definitions written as an object, <<"String">> for a
\* definition that only names the type
PropertyBlocks ==
    {<<<<"type", "observer">>, <<"notify">>>>,
     <<<<"observer", "type", "value", "notify">>>>,
     <<<<"reflectToAttribute">>, <<"String">>>>,
     <<<<"computed">>, <<"readOnly">>>>}

\* element.astNode: Polymer({...}) with the members of the object, or a
\* class with the members of its body; a member is its name, whether it is
\* static, its kind, and for the properties block its definitions
member(name, static, kind, definitions) ==
    [name |-> name, static |-> static, kind |-> kind,
     definitions |-> definitions]

objectSyntax(block) ==
    [type |-> "CallExpression",
     members |-> <<member("is", FALSE, "init", <<>>),
                   member("properties", FALSE, "init", block),
                   member("_propertyChanged", FALSE, "method", <<>>)>>]

classSyntax(block) ==
    [type |-> "ClassDeclaration",
     members |-> <<member("is", TRUE, "get", <<>>),
                   member("properties", TRUE, "get", block),
                   member("_propertyChanged", FALSE, "method", <<>>)>>]

\* a class without properties
plainClass ==
    [type |-> "ClassDeclaration",
     members |-> <<member("is", TRUE, "get", <<>>),
                   member("ready", FALSE, "method", <<>>)>>]

\* lines 106-117: the configurations other than value and type are spliced
\* out of a definition
keptConfigurations(definition) ==
    SelectSeq(definition, LAMBDA k : k \in {"value", "type"})

\* lines 102-123: a definition that is not an object stays; one whose
\* configurations are all spliced out is removed
strippedDefinitions(block) ==
    LET isObject(d) == d # <<"String">>
        each == [j \in 1..Len(block) |->
                    IF isObject(block[j]) THEN keptConfigurations(block[j])
                    ELSE block[j]]
    IN  SelectSeq(each, LAMBDA d : d # <<>>)

\* does the loop over the members of an object stop at member m (lines
\* 103-105), and the loop over the body of a class (lines 140-143)
isPropertiesBlock(m) == m.name = "properties" /\ m.kind = "init"

isPropertiesGetter(m) == m.name = "properties" /\ m.static /\ m.kind = "get"

without(seq, j) == SubSeq(seq, 1, j - 1) \o SubSeq(seq, j + 1, Len(seq))

\* removePropertiesFromElementDefinition(element), lines 90-154
removePropertiesFromElementDefinition(astNode) ==
    LET members == astNode.members
        blocks == {j \in 1..Len(members) : isPropertiesBlock(members[j])}
        getters == {j \in 1..Len(members) : isPropertiesGetter(members[j])}
        first(S) == CHOOSE j \in S : \A k \in S : j <= k
    IN  IF astNode.type = "CallExpression" /\ blocks # {}
        THEN LET j == first(blocks)
                 kept == strippedDefinitions(members[j].definitions)
             IN  [astNode EXCEPT !.members =
                     IF kept = <<>> THEN without(members, j)
                     ELSE [members EXCEPT ![j].definitions = kept]]
        ELSE IF astNode.type \in {"ClassDeclaration", "ClassExpression"}
                /\ getters # {}
        THEN [astNode EXCEPT !.members = without(members, first(getters))]
        ELSE astNode

\* A Polymer element of a document: tagName is "" for a feature that is no
\* Polymer element, template tells whether its dom-module has a template,
\* finalize whether its constructor has a finalize method; preBuilt lists
\* the namespaces whose metadata was written in front of its definition.
elementOf(tagName, template, finalize, astNode) ==
    [tagName |-> tagName, template |-> template, finalize |-> finalize,
     astNode |-> astNode, preBuilt |-> <<>>]

\* processElementProperties, properties.ts lines 74-82
processElementProperties(element) ==
    [element EXCEPT
        !.preBuilt = Append(@, "preBuiltEffects"),
        !.astNode = removePropertiesFromElementDefinition(@)]

\* processTemplateBindings, bindings.ts lines 133-167
processTemplateBindings(element) ==
    [element EXCEPT !.preBuilt = Append(@, "PreBuiltBindings")]

\* insertPreBuiltMetadata lines 183-230 for one element: the call of
\* processElementProperties stands behind `false &&` (line 228)
processElement(element) ==
    LET processedTemplate == element.template
        e1 == IF processedTemplate THEN processTemplateBindings(element)
              ELSE element
        hasProperties == IF processedTemplate THEN TRUE ELSE element.finalize
    IN  IF element.tagName = "" THEN element
        ELSE IF hasProperties /\ FALSE THEN processElementProperties(e1)
        ELSE e1

\* insertPreBuiltMetadata, lines 169-235: the contents of the document
\* with its elements processed
insertPreBuiltMetadata(document) ==
    [document EXCEPT
        !.elements = [j \in 1..Len(@) |-> processElement(@[j])]]

\* the contents of a file as it arrives: the document with its elements
contentsOf(project, url) == [url |-> url, elements |-> project.elements[url]]

\* a vinyl File
File(path, contents) == [path |-> path, contents |-> contents]

\* analysis.getDocument(url) instanceof Document: the analyzer loads the
\* files of the map, and only an html file gives a document with imports
isDocument(files, url) == isHtml(url) /\ url \in Range(files)

\* Set.prototype.add
add(urls, url) == IF url \in Range(urls) THEN urls ELSE Append(urls, url)

\* recursivelyObtainHTMLImports, lines 116-135, called with the documents
\* of the calls that have not returned in path. The function keeps no
\* record of the documents it is working on: a document that imports one
\* of them recurses without end, which ends in a RangeError (overflow).
RECURSIVE recursivelyObtainHTMLImports(_, _, _, _, _)
RECURSIVE obtainImports(_, _, _, _, _)
recursivelyObtainHTMLImports(project, files, url, urls, path) ==
    IF ~isDocument(files, url) THEN [set |-> urls, overflow |-> FALSE]
    ELSE IF url \in Range(path) THEN [set |-> urls, overflow |-> TRUE]
    ELSE LET below == obtainImports(project, files, project.imports[url],
                                    urls, Append(path, url))
         IN  IF below.overflow THEN below
             ELSE [set |-> add(below.set, url), overflow |-> FALSE]

\* lines 128-132: the loop over the imports of a document
obtainImports(project, files, imports, urls, path) ==
    IF imports = <<>> THEN [set |-> urls, overflow |-> FALSE]
    ELSE LET first == recursivelyObtainHTMLImports(project, files,
                                                   Head(imports), urls, path)
         IN  IF first.overflow THEN first
             ELSE obtainImports(project, files, Tail(imports), first.set,
                                path)

\* lines 78-79: the files of the map that are not in the traversal
outside(files, urls) ==
    SelectSeq(files, LAMBDA url : url \notin Range(urls))

AtStep(label) == transform.pc = label

\* lines 61-64: one file of the input stream
ReadFile ==
    /\ AtStep("reading")
    /\ transform.input # <<>>
    /\ transform' = [transform EXCEPT
          !.files = add(@, Head(transform.input)),
          !.input = Tail(@)]
    /\ UNCHANGED <<parserVars, protos, observer>>

\* lines 66-74, reached when the input stream has ended
Traverse ==
    /\ AtStep("reading")
    /\ transform.input = <<>>
    /\ LET found == recursivelyObtainHTMLImports(transform.project,
                        transform.files, transform.project.entrypoint,
                        <<>>, <<>>)
       IN  transform' = IF found.overflow
                        THEN [transform EXCEPT !.pc = "threw"]
                        ELSE [transform EXCEPT !.set = found.set,
                                               !.cursor = 0,
                                               !.pc = "passing"]
    /\ UNCHANGED <<parserVars, protos, observer>>

\* lines 78-81: one file outside the traversal is yielded as it came
PassThrough ==
    /\ AtStep("passing")
    /\ transform.cursor < Len(outside(transform.files, transform.set))
    /\ LET url == outside(transform.files, transform.set)[transform.cursor + 1]
       IN  transform' = [transform EXCEPT
              !.yielded = Append(@, File(url,
                                         contentsOf(transform.project, url))),
              !.cursor = @ + 1]
    /\ UNCHANGED <<parserVars, protos, observer>>

\* line 83
SetupBrowserPage ==
    /\ AtStep("passing")
    /\ transform.cursor = Len(outside(transform.files, transform.set))
    /\ transform' = [transform EXCEPT !.cursor = 0, !.pc = "documents"]
    /\ UNCHANGED <<parserVars, protos, observer>>

\* lines 85-101: one document of the traversal; ok tells whether
\* insertPreBuiltMetadata returns, or throws as it does when a script of the
\* document or an evaluation in the page fails
ProcessDocument ==
    /\ AtStep("documents")
    /\ transform.cursor < Len(transform.set)
    /\ LET documentUrl == transform.set[transform.cursor + 1]
           html == insertPreBuiltMetadata(
                       contentsOf(transform.project, documentUrl))
       IN  \E ok \in BOOLEAN :
              transform' = [transform EXCEPT
                  !.yielded = IF isDocument(transform.files, documentUrl) /\ ok
                              THEN Append(@, File(documentUrl, html))
                              ELSE @,
                  !.cursor = @ + 1]
    /\ UNCHANGED <<parserVars, protos, observer>>

\* line 103
CloseBrowser ==
    /\ AtStep("documents")
    /\ transform.cursor = Len(transform.set)
    /\ transform' = [transform EXCEPT !.pc = "finished"]
    /\ UNCHANGED <<parserVars, protos, observer>>

\* ------------------------------------------------------------------------
\* Inputs of the transform
\* ------------------------------------------------------------------------
\* the order the files arrive in: all of them, or without my-element.html
Arrivals ==
    {<<"index.html", "my-app.html", "my-element.html", "manifest.json">>,
     <<"manifest.json", "my-element.html", "my-app.html", "index.html">>,
     <<"index.html", "manifest.json", "my-app.html">>}

importsOf(index, app, element) ==
    [url \in Urls |->
        CASE url = "index.html" -> index
          [] url = "my-app.html" -> app
          [] url = "my-element.html" -> element
          [] OTHER -> <<>>]

\* the html imports: a chain, a document imported twice, a document no one
\* imports, documents that import each other, no import at all
ImportGraphs ==
    {importsOf(<<"my-app.html">>, <<"my-element.html">>, <<>>),
     importsOf(<<"my-app.html", "my-element.html">>, <<"my-element.html">>,
               <<>>),
     importsOf(<<"my-app.html">>, <<>>, <<>>),
     importsOf(<<"my-app.html">>, <<"my-element.html">>, <<"my-app.html">>),
     importsOf(<<>>, <<>>, <<>>)}

\* the element of my-app.html: a class with a template
AppElements ==
    {elementOf("my-app", TRUE, TRUE, classSyntax(block)) :
        block \in PropertyBlocks}
    \cup {elementOf("my-app", TRUE, TRUE, plainClass)}

\* the element of my-element.html: Polymer({...}) without a template, a
\* constructor that cannot be finalized, a feature without a tag name
ElementElements ==
    {elementOf("my-element", FALSE, TRUE, objectSyntax(block)) :
        block \in PropertyBlocks}
    \cup {elementOf("my-element", FALSE, FALSE,
                    objectSyntax(<<<<"type">>>>)),
          elementOf("", FALSE, TRUE, plainClass)}

Projects ==
    {[arrival |-> arrival, entrypoint |-> "index.html", imports |-> imports,
      elements |-> [url \in Urls |->
                       CASE url = "my-app.html" -> <<app>>
                         [] url = "my-element.html" -> <<element>>
                         [] OTHER -> <<>>]] :
        arrival \in Arrivals, imports \in ImportGraphs,
        app \in AppElements, element \in ElementElements}

TransformInit ==
    /\ transform \in
          {[project |-> project, input |-> project.arrival, files |-> <<>>,
            set |-> <<>>, cursor |-> 0, yielded |-> <<>>, pc |-> "reading"] :
              project \in Projects}
    /\ protos = <<>>
    /\ observer = NoObserver
    /\ text = <<>>
    /\ templateInfo = Undefined
    /\ parts = <<>>
    /\ bindingData = EmptyObject
    /\ escaped = FALSE
    /\ quote = Undefined
    /\ state = "INITIAL"
    /\ i = 0
    /\ warnings = <<>>
    /\ pc = "idle"

TransformNext ==
    \/ ReadFile
    \/ Traverse
    \/ PassThrough
    \/ SetupBrowserPage
    \/ ProcessDocument
    \/ CloseBrowser

TransformSpec == TransformInit /\ [][TransformNext]_vars

\* ------------------------------------------------------------------------
\* C29, C30: the files the transform yields
\* ------------------------------------------------------------------------
\* the yielded files of the documents of the traversal
processedFiles ==
    IF transform.pc \in {"documents", "finished"}
    THEN {k \in 1..Len(transform.yielded) :
             transform.yielded[k].path \in Range(transform.set)}
    ELSE {}

\* the element has properties, as line 195 and lines 210-219 decide it
withProperties(element) ==
    element.tagName # "" /\ (element.template \/ element.finalize)

\* C29: in every document the transform has processed and yielded, the
\* definition of each element with properties is the definition of the
\* input with removePropertiesFromElementDefinition applied: the properties
\* block of Object syntax, the static properties getter of Class syntax
\* are removed.
C29_PropertiesAreRemoved ==
    \A k \in processedFiles :
        LET file == transform.yielded[k]
            before == transform.project.elements[file.path]
            after == file.contents.elements
        IN  \A j \in 1..Len(before) :
               withProperties(before[j]) =>
                  after[j].astNode =
                     removePropertiesFromElementDefinition(before[j].astNode)

\* how often a file of the path is in the output
timesYielded(url) ==
    Cardinality({k \in 1..Len(transform.yielded) :
                    transform.yielded[k].path = url})

\* C30: when the transform has finished, every file of the input is in the
\* output exactly once: a file outside the traversal with the contents it
\* came with, a document of the traversal also when its processing threw.
C30_EveryFileYieldedOnce ==
    transform.pc = "finished" =>
        \A url \in Range(transform.project.arrival) :
            /\ timesYielded(url) = 1
            /\ url \notin Range(transform.set) =>
                  \A k \in 1..Len(transform.yielded) :
                     transform.yielded[k].path = url =>
                        transform.yielded[k].contents =
                           contentsOf(transform.project, url)

\* the part of C30 the code keeps: no file is yielded twice, the files
\* outside the traversal are all yielded as they came, and a document of
\* the traversal is missing only if its processing threw
C30_NoFileTwiceOutsideUnchanged ==
    /\ \A url \in Urls : transform.pc # "idle" => timesYielded(url) <= 1
    /\ transform.pc \in {"documents", "finished"} =>
          \A url \in Range(transform.project.arrival) \ Range(transform.set) :
              File(url, contentsOf(transform.project, url))
                 \in Range(transform.yielded)

\* ------------------------------------------------------------------------
\* C31 - C36: the parts of a parse result
\* ------------------------------------------------------------------------
\* where the part before part k ended: the position after the closing
\* delimiter of a binding part, the start of the text before the first part
endOfPrevious(k) == IF k = 1 THEN 0 ELSE parts[k - 1].startChar[1]

\* C31: the parts are in input order and do not overlap: a literal part
\* that is the first part or follows a binding part is the text that starts
\* where that binding ended, also when a single '{' or '[' was given up
\* between them, and the ends of the binding parts increase.
C31_LiteralStartsWherePreviousPartEnded ==
    /\ \A k \in 1..Len(parts) :
          (isLiteralPart(parts[k]) /\ (k = 1 \/ isBinding(k - 1)))
             => parts[k].literal =
                   substring(text, endOfPrevious(k),
                             endOfPrevious(k) + Len(parts[k].literal))
    /\ \A j, k \in 1..Len(parts) :
          (j < k /\ isBinding(j) /\ isBinding(k))
             => parts[j].startChar[1] < parts[k].startChar[1]

\* the step pushes a binding part
emitsBinding ==
    /\ Len(parts') = Len(parts) + 1
    /\ ~isLiteralPart(parts'[Len(parts')])

\* where the last binding part ended, 0 without one
endOfBindings ==
    IF \E k \in 1..Len(parts) : isBinding(k)
    THEN parts[lastBinding].startChar[1]
    ELSE 0

\* the text has the pair c c at position p (0-based)
pairAt(p, c) == p + 2 <= Len(text) /\ text[p + 1] = c /\ text[p + 2] = c

\* C32 (state part): a binding part has the mode of an opener, and the text
\* holds the closing character of that kind; no binding part is emitted
\* when the text has only closers of the other kind.
C32_ModeHasItsCloser ==
    \A k \in 1..Len(parts) :
        isBinding(k) =>
            /\ parts[k].mode \in Openers
            /\ \E j \in 1..Len(text) : text[j] = BINDINGS[parts[k].mode]

\* C32 (step part): a binding part is pushed only while the closing
\* character of its own kind is read, after an opening pair of its kind
\* that lies behind the last binding and an earlier closing character of
\* its kind; a binding without a call is pushed on the second character of
\* the closing pair.
C32_EmittedOnMatchingCloser ==
    emitsBinding =>
        LET b == parts'[Len(parts')]
        IN  /\ b.mode \in Openers
            /\ char = BINDINGS[b.mode]
            /\ \E p \in endOfBindings..(i - 2) :
                  /\ pairAt(p, b.mode)
                  /\ \E j \in (p + 2)..(i - 1) : text[j + 1] = BINDINGS[b.mode]
            /\ b.signature = Undefined => pairAt(i - 1, BINDINGS[b.mode])

RECURSIVE lastNonBlank(_)
lastNonBlank(pos) ==
    IF pos <= 0 THEN 0
    ELSE IF isBlank(text[pos]) THEN lastNonBlank(pos - 1)
    ELSE pos

\* C33: no binding part is emitted for a method call whose closing
\* parenthesis is followed by a mismatched closing sequence: behind every
\* emitted method call, going back from its end over blanks, stand the two
\* closing characters of its kind and before them the ')' of the call.
C33_NoBindingAfterMismatchedClose ==
    \A k \in 1..Len(parts) :
        isMethodBinding(k) =>
            LET second == parts[k].startChar[1]
                first == lastNonBlank(second - 1)
                paren == lastNonBlank(first - 1)
            IN  /\ text[second] = BINDINGS[parts[k].mode]
                /\ first > 0 /\ text[first] = BINDINGS[parts[k].mode]
                /\ paren > 0 /\ text[paren] = ")"

\* C34: in "m(<number>...)" the number, an optional '-' and digits, with or
\* without blanks before the ',' or ')' behind it, is stored as a literal
\* argument whose value is that number; it is no dependency, and the
\* signature stays static when the other argument is a literal too.
C34_NumberIsNumericLiteral ==
    returned =>
        \A o \in Openers, pre \in {<<>>, <<" ">>}, f \in NumberForms,
           post \in {<<>>, <<" ">>},
           rest \in {<<>>, <<",", "a">>, <<",", "4">>} :
            text = NumberText(o, pre, f, post, rest)
                => /\ isMethodBinding(1)
                   /\ parts[1].signature[1].args # <<>>
                   /\ parts[1].signature[1].args[1] =
                         [name |-> f.txt, value |-> <<"number", f.num>>,
                          literal |-> TRUE]
                   /\ ~occursIn(f.txt, parts[1].dependencies)
                   /\ rest # <<",", "a">> => parts[1].signature[1].static

\* C35: an emitted method call is flagged dynamicFn, or has its own name
\* among its dependencies, only if the name is in the dynamic-function set
\* of the caller.
C35_FlaggedOnlyIfDynamic ==
    \A k \in 1..Len(parts) :
        isMethodBinding(k) =>
            LET sig == parts[k].signature[1]
            IN  (sig.dynamicFn \/ occursIn(sig.methodName, parts[k].dependencies))
                    => sig.methodName \in dynamicNames

\* C36: every emitted binding that is marked customEvent carries an event
\* name that is not empty, and its source is the path alone, without the
\* separator "::" (and so without the event name behind it); a binding
\* emitted by FIRSTCLOSINGBINDING, which sets no event, is not marked.
C36_CustomEventHasEventName ==
    \A k \in 1..Len(parts) :
        (isBinding(k) /\ parts[k].customEvent) =>
            /\ parts[k].event # Undefined
            /\ parts[k].event[1] # <<>>
            /\ parts[k].source # Undefined
            /\ ~isInfix(<<":", ":">>, parts[k].source[1])

\* ------------------------------------------------------------------------
\* C37, C38: the alias map and the observer-argument cache
\* ------------------------------------------------------------------------
\* the entries of the raw observer-argument cache whose cache name has a
\* token in the alias map
aliasedEntries(prototype) ==
    {e \in Range(get(prototype.raw, Key.observerArgCache)[2]) :
        mapHas(prototype.context[1].map, e[1])}

\* C37: after the strips and patchUpObserverArgCache, for every cache name
\* k of the raw cache that an effect refers to, every effect that referred
\* to k holds token(k), and the patched cache has under token(k) the
\* argument list the raw cache had under k (its arguments without their
\* default fields), also when k is itself a decimal string.
C37_AliasAppliedToBothTables ==
    \A p \in DOMAIN protos :
        (patched(protos[p]) /\ protos[p].context # Undefined) =>
            \A e \in aliasedEntries(protos[p]) :
                LET token == mapGet(protos[p].context[1].map, e[1])[1]
                IN  /\ \A r \in methodRecords(protos[p]) :
                          rawCacheName(protos[p], r) = Str(e[1]) =>
                              nowCacheName(protos[p], r) = Str(token)
                    /\ get(get(protos[p].props, Key.observerArgCache), token)
                          = stripArgs(e[2])

\* C38: when patchUpObserverArgCache is about to be called for a prototype
\* with an __observerArgCache, the prototype has a cache context, also
\* without __computeEffects and __observeEffects, and the call never fails
\* for the lack of one.
C38_ContextExistsAtPatch ==
    \A p \in DOMAIN protos :
        /\ (protos[p].pc = "patch"
            /\ truthy(get(protos[p].props, Key.observerArgCache)))
              => seen(p).context # Undefined
        /\ protos[p].pc # "threw"

\* ------------------------------------------------------------------------
\* C39: the traversal of the html imports
\* ------------------------------------------------------------------------
\* the documents reachable from the documents of S over html imports
RECURSIVE reachable(_, _, _)
reachable(project, files, S) ==
    LET more == S \cup {url \in Urls :
                           /\ isDocument(files, url)
                           /\ \E from \in S :
                                 url \in Range(project.imports[from])}
    IN  IF more = S THEN S ELSE reachable(project, files, more)

\* the position of a document in the set (insertion order)
order(urls, url) == CHOOSE k \in 1..Len(urls) : urls[k] = url

\* C39: recursivelyObtainHTMLImports returns for every import graph, also
\* when documents import each other or share an import; the set then holds
\* every document reachable from the entrypoint, once, and each document
\* behind all the documents it imports.
C39_TraversalReturnsPostOrder ==
    /\ transform.pc # "threw"
    /\ transform.pc \in {"passing", "documents", "finished"} =>
          LET project == transform.project
              files == transform.files
              urls == transform.set
              start == IF isDocument(files, project.entrypoint)
                       THEN {project.entrypoint} ELSE {}
          IN  /\ Range(urls) = reachable(project, files, start)
              /\ noDuplicates(urls)
              /\ \A url \in Range(urls) :
                    \A k \in 1..Len(project.imports[url]) :
                        LET below == project.imports[url][k]
                        IN  isDocument(files, below) =>
                               /\ below \in Range(urls)
                               /\ order(urls, below) < order(urls, url)

\* ========================================================================
\* Part 5: FlattenedNodesObserver
\* ========================================================================
\* the flush microtasks one observer may have queued at a time
MaxMicrotasks == 2

\* the nodes that can be assigned to the observed slot
SlotNodes == {"n1", "n2"}

\* The observer record: target is "slot" (the target is the slot) or
\* "element" (the target has the slot and possibly the node "c" as
\* children); connected, scheduled and effectiveNodes are the fields
\* _connected, _scheduled and _effectiveNodes; listening tells whether
\* _boundSchedule is a slotchange listener of the slot; childrenObserver
\* whether _nativeChildrenObserver is set, records whether it holds mutation
\* records; microtasks counts the queued calls of flush; info is the
\* argument of the last call of the callback; awaiting tells that a
\* slotchange event reached the listener and flush has not run since.
\* Node lists are modelled as sets: the order of the nodes is left out.

\* getFlattenedNodes, lines 53-69
getFlattenedNodes(o) ==
    (IF o.target = "element" /\ o.child THEN {"c"} ELSE {}) \cup o.assigned

\* flush, lines 176-212: nothing happens while disconnected; otherwise the
\* records of the children observer are taken, _scheduled is cleared, the
\* flattened nodes are compared with _effectiveNodes and the callback is
\* called when nodes were added or removed
flush(o) ==
    IF ~o.connected THEN o
    ELSE LET newNodes == getFlattenedNodes(o)
             addedNodes == newNodes \ o.effectiveNodes
             removedNodes == o.effectiveNodes \ newNodes
         IN  [o EXCEPT
                !.records = FALSE,
                !.scheduled = FALSE,
                !.effectiveNodes = newNodes,
                !.info = IF addedNodes # {} \/ removedNodes # {}
                         THEN Some([addedNodes |-> addedNodes,
                                    removedNodes |-> removedNodes])
                         ELSE @,
                !.awaiting = FALSE]

\* _schedule, lines 142-147
schedule(o) ==
    IF ~o.scheduled
    THEN [o EXCEPT !.scheduled = TRUE, !.microtasks = @ + 1]
    ELSE o

\* connect, lines 100-118, called to re-activate a disconnected observer
connect(o) ==
    [o EXCEPT !.listening = TRUE,
              !.childrenObserver = (o.target = "element"),
              !.connected = TRUE]

\* disconnect, lines 126-140: the records of the children observer are
\* lost with it
disconnect(o) ==
    [o EXCEPT !.listening = FALSE,
              !.childrenObserver = FALSE,
              !.records = FALSE,
              !.connected = FALSE,
              !.awaiting = FALSE]

Live == observer.pc = "live"

Connect ==
    /\ Live
    /\ ~observer.connected
    /\ observer' = connect(observer)
    /\ UNCHANGED <<parserVars, protos, transform>>

Disconnect ==
    /\ Live
    /\ observer.connected
    /\ observer' = disconnect(observer)
    /\ UNCHANGED <<parserVars, protos, transform>>

\* the nodes assigned to the slot change and the slot fires slotchange:
\* _boundSchedule runs if it is a listener of the slot (lines 88-90, 217)
SlotChange ==
    /\ Live
    /\ observer.scheduled \/ observer.microtasks < MaxMicrotasks
    /\ \E nodes \in SUBSET SlotNodes :
          /\ nodes # observer.assigned
          /\ observer' =
                IF observer.listening
                THEN [schedule(observer) EXCEPT !.assigned = nodes,
                                                !.awaiting = TRUE]
                ELSE [observer EXCEPT !.assigned = nodes]
    /\ UNCHANGED <<parserVars, protos, transform>>

\* line 145: a queued microtask runs and calls flush
RunMicrotask ==
    /\ Live
    /\ observer.microtasks > 0
    /\ observer' = flush([observer EXCEPT !.microtasks = @ - 1])
    /\ UNCHANGED <<parserVars, protos, transform>>

\* the node "c" is added to or removed from the children of the target;
\* a children observer that is observing records the mutation (line 114)
Mutate ==
    /\ Live
    /\ observer.target = "element"
    /\ observer' = [observer EXCEPT
                       !.child = ~@,
                       !.records = @ \/ observer.childrenObserver]
    /\ UNCHANGED <<parserVars, protos, transform>>

\* lines 111-113 and 149-152: the children observer delivers its records
\* and _processMutations flushes at once
ProcessMutations ==
    /\ Live
    /\ observer.childrenObserver
    /\ observer.records
    /\ observer' = flush([observer EXCEPT !.records = FALSE])
    /\ UNCHANGED <<parserVars, protos, transform>>

\* the constructor, lines 76-92: connect() and _schedule()
newObserver(target, child, assigned) ==
    schedule(connect(
        [pc |-> "live", target |-> target, child |-> child,
         assigned |-> assigned, connected |-> FALSE, scheduled |-> FALSE,
         listening |-> FALSE, childrenObserver |-> FALSE, records |-> FALSE,
         microtasks |-> 0, effectiveNodes |-> {}, info |-> Undefined,
         awaiting |-> FALSE]))

ObserverInit ==
    /\ observer \in
          {newObserver("slot", FALSE, assigned) :
              assigned \in SUBSET SlotNodes}
          \cup {newObserver("element", child, assigned) :
                   child \in BOOLEAN, assigned \in SUBSET SlotNodes}
    /\ transform = NoTransform
    /\ protos = <<>>
    /\ text = <<>>
    /\ templateInfo = Undefined
    /\ parts = <<>>
    /\ bindingData = EmptyObject
    /\ escaped = FALSE
    /\ quote = Undefined
    /\ state = "INITIAL"
    /\ i = 0
    /\ warnings = <<>>
    /\ pc = "idle"

ObserverNext ==
    \/ Connect
    \/ Disconnect
    \/ SlotChange
    \/ RunMicrotask
    \/ Mutate
    \/ ProcessMutations

\* queued microtasks and the records of an observing MutationObserver are
\* always delivered; nothing obliges the page to connect, disconnect or
\* change its nodes
ObserverSpec ==
    /\ ObserverInit
    /\ [][ObserverNext]_vars
    /\ WF_vars(RunMicrotask)
    /\ WF_vars(ProcessMutations)

\* ------------------------------------------------------------------------
\* C40
\* ------------------------------------------------------------------------
\* C40: a slotchange event that reaches a connected observer leads to a run
\* of flush (or to a disconnect), also when the observer was disconnected
\* and connected again while an earlier flush was still queued.
C40_SlotChangeLeadsToFlush ==
    (Live /\ observer.awaiting) ~> (Live /\ ~observer.awaiting)

====
